---- MODULE Spec2Model ----
(***************************************************************************)
(* Model of the nRF52 IEEE 802.15.4 radio driver                           *)
(* (chips/nrf52/src/ieee802154_radio.rs).                                  *)
(*                                                                         *)
(* The driver's fields are the variables of the model.  The memory-mapped  *)
(* peripheral is the record `registers` plus the peripheral's internal     *)
(* activity `periph`; it moves by the Hw* actions.  Every driver function  *)
(* is an operator from machine records to machine records, so that a       *)
(* handler that calls other functions (and client callbacks that call      *)
(* back into the driver) is one atomic action, as it is in the kernel,     *)
(* where interrupt bottom halves and capsule calls never preempt each      *)
(* other.                                                                  *)
(***************************************************************************)
EXTENDS Integers, Sequences, FiniteSets, TLC

(***************************************************************************)
(* Bounds of the model                                                     *)
(***************************************************************************)
\* accepted transmit() calls per behaviour (caps the nonce sequence)
MaxTransmits == 2
\* thread-mode calls of set_receive_buffer, initialize, reset, stop,
\* config_commit, set_channel and set_tx_power per behaviour
MaxCalls == 1

(***************************************************************************)
(* Program constants                                                       *)
(***************************************************************************)
IEEE802154_BACKOFF_PERIOD == 320
IEEE802154_MAX_POLLING_ATTEMPTS == 4
IEEE802154_MIN_BE == 3
IEEE802154_MAX_BE == 5
MIMIC_PSDU_OFFSET == 1
\* kernel::hil::radio constants
PSDU_OFFSET == 2
MFR_SIZE == 2
\* nrf5x::constants::RADIO_STATE_*
RADIO_STATE_DISABLED == 0
RADIO_STATE_RXRU == 1
RADIO_STATE_RXIDLE == 2
RADIO_STATE_RX == 3
RADIO_STATE_RXDISABLE == 4
RADIO_STATE_TXRU == 9
RADIO_STATE_TXIDLE == 10
RADIO_STATE_TX == 11
RADIO_STATE_TXDISABLE == 12
\* Mode::MODE::IEEE802154_250KBIT
IEEE802154_250KBIT == 15
\* seed of random_nonce, 0xDEADBEEF.  A u32 is the pair of its 16-bit halves
\* <<high, low>>
NONCE_SEED == <<57005, 48879>>
\* RadioChannel::DataChannel26 as u32
DataChannel26 == 80
\* TxPower::ZerodBm as u32
ZerodBm == 0

None == 0
\* the static frame buffers of the board: the one the MAC layer sends from
\* and the one the radio capsule receives into
Bufs == {1, 2}
TwoTo16 == 65536

\* length of the static buffer b: buffer 1 is a full 802.15.4 buffer,
\* the others are short ones
BufLen(b) == IF b = 1 THEN 260 ELSE 14
\* address of the static buffer b
BufBase(b) == 536870912 + 1024 * b

\* Interrupt::READY + CCAIDLE + CCABUSY + END + FRAMESTART
RadioInterrupts == {"READY", "CCAIDLE", "CCABUSY", "END", "FRAMESTART"}

VARIABLES
    \* fields of struct Radio
    tx_power, rx_client, tx_client, tx_buf, rx_buf, cca_count, cca_be,
    random_nonce, channel, transmitting, timer0, addr, addr_long, pan,
    \* the peripheral
    registers, periph,
    \* the environment: the one-shot alarm, the buffers the clients hold,
    \* byte MIMIC_PSDU_OFFSET of every buffer
    alarm, held, mem,
    \* a panic (failed unwrap) halts the kernel
    panicked,
    \* history: the last operation with the tasks and callbacks it issued,
    \* the counters of the transmit attempt in flight, and the numbers of
    \* transmit() calls accepted, send_done callbacks made and counted calls
    last, attempt, txCount, doneCount, callCount,
    \* the peripheral-state tracker of struct Ieee802154Radio
    radio_state_machine

vars == <<tx_power, rx_client, tx_client, tx_buf, rx_buf, cca_count, cca_be,
          random_nonce, channel, transmitting, timer0, registers, periph,
          alarm, held, mem, panicked, last, attempt, txCount,
                   callCount, doneCount, addr, addr_long, pan,
          radio_state_machine>>

(***************************************************************************)
(* The machine as one record, for the operators that model functions       *)
(***************************************************************************)
Cur == [tx_power |-> tx_power, rx_client |-> rx_client, tx_client |-> tx_client,
        tx_buf |-> tx_buf, rx_buf |-> rx_buf, cca_count |-> cca_count,
        cca_be |-> cca_be, random_nonce |-> random_nonce, channel |-> channel,
        transmitting |-> transmitting, timer0 |-> timer0,
        registers |-> registers, periph |-> periph, alarm |-> alarm,
        held |-> held, mem |-> mem, panicked |-> panicked, last |-> last,
        attempt |-> attempt, txCount |-> txCount, callCount |-> callCount,
        doneCount |-> doneCount, addr |-> addr, addr_long |-> addr_long,
        pan |-> pan, radio_state_machine |-> radio_state_machine]

Commit(s) ==
    /\ tx_power' = s.tx_power
    /\ rx_client' = s.rx_client
    /\ tx_client' = s.tx_client
    /\ tx_buf' = s.tx_buf
    /\ rx_buf' = s.rx_buf
    /\ cca_count' = s.cca_count
    /\ cca_be' = s.cca_be
    /\ random_nonce' = s.random_nonce
    /\ channel' = s.channel
    /\ transmitting' = s.transmitting
    /\ timer0' = s.timer0
    /\ registers' = s.registers
    /\ periph' = s.periph
    /\ alarm' = s.alarm
    /\ held' = s.held
    /\ mem' = s.mem
    /\ panicked' = s.panicked
    /\ last' = s.last
    /\ attempt' = s.attempt
    /\ txCount' = s.txCount
    /\ callCount' = s.callCount
    /\ doneCount' = s.doneCount
    /\ addr' = s.addr
    /\ addr_long' = s.addr_long
    /\ pan' = s.pan
    /\ radio_state_machine' = s.radio_state_machine

\* the history of the transmit attempt in flight: its buffer, the CCABUSY
\* events handled, the backoff alarms scheduled and fired, the send_done
\* callbacks made for it, and whether anything but the peripheral's events
\* and its own alarms has touched the driver since it was accepted
NoAttempt == [buf |-> None, busy |-> 0, set |-> 0, fired |-> 0, done |-> 0,
              disturbed |-> FALSE]
NewAttempt(b, stale) == [buf |-> b, busy |-> 0, set |-> 0, fired |-> 0,
                         done |-> 0, disturbed |-> stale]

\* one entry of the history of an operation: a task or register write the
\* driver issued, a client callback it made (with the attempt it ended), or
\* the return of a transmit() call
Ev(name) == [ev |-> name, buf |-> None, frame_len |-> <<0, 0>>, flag |-> FALSE,
             result |-> "-", att |-> NoAttempt, inten |-> {}]
Cb(name, b, n, f, r) == [ev |-> name, buf |-> b, frame_len |-> n, flag |-> f,
                         result |-> r, att |-> NoAttempt, inten |-> {}]
\* every entry records the interrupts enabled (INTEN) when it is made
Note(s, e) ==
    [s EXCEPT !.last.trace = Append(@, [e EXCEPT !.inten = s.registers.inten])]
\* the events latched in the registers of machine s
Latched(s) ==
    {e \in {"READY", "END"} :
        \/ e = "READY" /\ s.registers.event_ready = 1
        \/ e = "END" /\ s.registers.event_end = 1}

\* an operation starts: its history is empty; the interrupt handler's history
\* remembers which of READY and END were latched when it was entered
Begin(s, op) ==
    [s EXCEPT !.last = [op |-> op, result |-> "-", trace |-> <<>>,
                        latched |-> IF op = "handle_interrupt"
                                    THEN Latched(s) ELSE {}]]
Return(s, r) == [s EXCEPT !.last.result = r]

\* a failed unwrap()/unwrap_or_panic(): the kernel stops where it is
Panic(s) == Note([s EXCEPT !.panicked = TRUE], Ev("panic"))

(***************************************************************************)
(* The peripheral's registers                                              *)
(***************************************************************************)
\* reset values of the register block (after power-on reset, and after the
\* POWER register is written 0)
ResetRegisters(pw) ==
    [power |-> pw, state |-> RADIO_STATE_DISABLED,
     event_ready |-> 0, event_end |-> 0, event_disabled |-> 0,
     event_framestart |-> 0, event_ccaidle |-> 0, event_ccabusy |-> 0,
     inten |-> {}, crcstatus |-> 0, packetptr |-> 0,
     frequency |-> 2, txpower |-> 0, mode |-> 0]

\* what the peripheral is doing: a CCA running, a frame in progress,
\* whether the latched EVENTS_END is that of a received frame, and the
\* verdict of the last CCA since power-on
IdlePeriph == [cca |-> FALSE, inframe |-> FALSE, rxend |-> FALSE,
               verdict |-> "none"]

\* registers.X.write / .set: a powered-off peripheral is held in reset
WriteReg(s, r, v) ==
    IF s.registers.power = 1
    THEN [s EXCEPT !.registers[r] = v,
                   !.periph.rxend = IF r = "event_end" THEN FALSE ELSE @]
    ELSE s

\* registers.power.write(Task::ENABLE::CLEAR / SET)
WritePower(s, v) ==
    IF v = 0
    THEN Note([s EXCEPT !.registers = ResetRegisters(0), !.periph = IdlePeriph],
              Ev("power_off"))
    ELSE Note([s EXCEPT !.registers.power = 1], Ev("power_on"))

\* the state the peripheral enters on a task, by the radio state diagram
TaskState(st, task) ==
    CASE task = "rxen" /\ st \in {RADIO_STATE_DISABLED, RADIO_STATE_TXIDLE}
             -> RADIO_STATE_RXRU
      [] task = "txen" /\ st \in {RADIO_STATE_DISABLED, RADIO_STATE_RXIDLE}
             -> RADIO_STATE_TXRU
      [] task = "start" /\ st = RADIO_STATE_RXIDLE -> RADIO_STATE_RX
      [] task = "start" /\ st = RADIO_STATE_TXIDLE -> RADIO_STATE_TX
      [] task = "disable" -> RADIO_STATE_DISABLED
      [] OTHER -> st

\* registers.task_X.write(Task::ENABLE::SET)
WriteTask(s, task) ==
    LET n == Note(s, Ev("task_" \o task))
        st == n.registers.state
    IN IF n.registers.power = 0 THEN n
       ELSE [n EXCEPT
               !.registers.state = TaskState(st, task),
               !.periph = CASE task = "ccastart"
                                 /\ st \in {RADIO_STATE_RXIDLE, RADIO_STATE_RX}
                               -> [@ EXCEPT !.cca = TRUE, !.verdict = "none"]
                            [] task \in {"disable", "txen"}
                               -> [IdlePeriph EXCEPT
                                      !.rxend = n.periph.rxend,
                                      !.verdict = n.periph.verdict]
                            [] OTHER -> @]

\* task_disable followed by the wait for EVENTS_DISABLED: the peripheral
\* latches DISABLED once it has reached the Disabled state
DisableAndWait(s) == WriteReg(WriteTask(s, "disable"), "event_disabled", 1)

(***************************************************************************)
(* 32-bit arithmetic of random_nonce                                       *)
(***************************************************************************)
RECURSIVE BitXor(_, _)
BitXor(a, b) ==
    IF a = 0 THEN b
    ELSE IF b = 0 THEN a
    ELSE (((a % 2) + (b % 2)) % 2) + 2 * BitXor(a \div 2, b \div 2)

RECURSIVE BitAnd(_, _)
BitAnd(a, b) ==
    IF a = 0 \/ b = 0 THEN 0
    ELSE ((a % 2) * (b % 2)) + 2 * BitAnd(a \div 2, b \div 2)

\* Wrapping<u32> << n and >> n on the pair of halves
Shl32(x, n) ==
    IF n < 16
    THEN <<(x[1] % 2^(16 - n)) * 2^n + (x[2] \div 2^(16 - n)),
           (x[2] % 2^(16 - n)) * 2^n>>
    ELSE <<(x[2] % 2^(32 - n)) * 2^(n - 16), 0>>
Shr32(x, n) ==
    IF n < 16
    THEN <<x[1] \div 2^n, (x[1] % 2^n) * 2^(16 - n) + (x[2] \div 2^n)>>
    ELSE <<0, x[1] \div 2^(n - 16)>>
Xor32(x, y) == <<BitXor(x[1], y[1]), BitXor(x[2], y[2])>>
And32(x, y) == <<BitAnd(x[1], y[1]), BitAnd(x[2], y[2])>>
\* the u32 of a number below 2^31, and back
U32(n) == <<n \div TwoTo16, n % TwoTo16>>
Int32(x) == x[1] * TwoTo16 + x[2]

\* the xorshift step of random_nonce()
NextNonce(x) ==
    LET a == Xor32(x, Shl32(x, 13))
        b == Xor32(a, Shr32(a, 17))
    IN Xor32(b, Shl32(b, 5))

\* fn random_nonce(&self) -> u32: updates the state and returns it
random_nonce_step(s) == [s EXCEPT !.random_nonce = NextNonce(@)]

\* a mask one bit wider than the exponent
BackoffPeriods_WideMask(nonce, be) == Int32(And32(nonce, U32((2^(be + 1)) - 1)))

\* random_nonce() & ((1 << cca_be) - 1)
BackoffPeriods(nonce, be) == Int32(And32(nonce, U32((2^be) - 1)))

(***************************************************************************)
(* struct Radio: the internal functions                                    *)
(***************************************************************************)
\* fn enable_interrupts: INTENSET sets the five bits, keeps the others
enable_interrupts(s) ==
    WriteReg(s, "inten", s.registers.inten \cup RadioInterrupts)

\* pub fn enable_interrupt(intr): INTENSET = intr
enable_interrupt(s, intr) ==
    WriteReg(s, "inten", s.registers.inten \cup {intr})

\* fn disable_all_interrupts: INTENCLR = 0xffffffff
disable_all_interrupts(s) == WriteReg(s, "inten", {})

\* fn set_dma_ptr: PACKETPTR = buffer.as_ptr() + MIMIC_PSDU_OFFSET
set_dma_ptr(s, buffer) ==
    WriteReg(s, "packetptr", BufBase(buffer) + MIMIC_PSDU_OFFSET)

\* fn radio_on
radio_on(s) == WritePower(WritePower(s, 0), 1)

\* fn radio_off
radio_off(s) == WritePower(s, 0)

\* an rx() that always takes the RX buffer
RxSlot_RxOnly(s) == s.rx_buf

\* the slot rx() loads the DMA pointer from
RxSlot(s) == IF s.transmitting THEN s.tx_buf ELSE s.rx_buf

\* fn rx
rx(s) ==
    IF s.panicked THEN s
    ELSE LET s1 == WriteReg(s, "event_ready", 0)
         IN IF RxSlot(s1) = None
            THEN Panic(s1)
            ELSE enable_interrupts(
                     WriteTask(set_dma_ptr(s1, RxSlot(s1)), "rxen"))

\* fn ieee802154_set_channel_rate
ieee802154_set_channel_rate(s) == WriteReg(s, "mode", IEEE802154_250KBIT)

\* fn ieee802154_set_tx_power / fn set_tx_power(&self)
ieee802154_set_tx_power(s) == WriteReg(s, "txpower", s.tx_power)

\* fn ieee802154_set_channel_freq(channel): FREQUENCY = channel as u32
ieee802154_set_channel_freq(s, ch) == WriteReg(s, "frequency", ch)

\* a radio_initialize that does not program FREQUENCY
radio_initialize_NoFrequency(s) ==
    IF s.panicked THEN s
    ELSE LET s1 == radio_on(s)
             s2 == DisableAndWait(WriteReg(s1, "event_disabled", 0))
             s3 == ieee802154_set_channel_rate(s2)
             s4 == ieee802154_set_tx_power(s3)
         IN rx(s4)

\* fn radio_initialize
radio_initialize(s) ==
    IF s.panicked THEN s
    ELSE LET s1 == radio_on(s)
             s2 == DisableAndWait(WriteReg(s1, "event_disabled", 0))
             s3 == ieee802154_set_channel_rate(s2)
             s4 == ieee802154_set_tx_power(s3)
             s5 == ieee802154_set_channel_freq(s4, s4.channel)
         IN rx(s5)

(***************************************************************************)
(* RadioData::transmit                                                     *)
(***************************************************************************)
\* a busy check that forgets the buffer slot
TransmitBusy_FlagOnly(s) == s.transmitting

\* self.tx_buf.is_some() || self.transmitting.get()
TransmitBusy(s) == s.tx_buf # None \/ s.transmitting

\* radio::PSDU_OFFSET + frame_len >= buf.len()
TransmitTooLong(frame_len, len) == PSDU_OFFSET + frame_len >= len

\* (frame_len + radio::MFR_SIZE) as u8
PhyLength(frame_len) == (frame_len + MFR_SIZE) % 256

\* an accepted path that keeps the counters of the earlier attempt
TransmitAccept_KeepCounters(s, buf, frame_len) ==
    LET s1 == [s EXCEPT !.mem[buf] = PhyLength(frame_len),
                        !.tx_buf = buf,
                        !.transmitting = TRUE,
                        !.attempt = NewAttempt(buf, s.alarm.pending),
                        !.txCount = @ + 1]
    IN radio_initialize(radio_off(s1))

\* the accepted path of transmit(): the stores and the re-initialisation
TransmitAccept(s, buf, frame_len) ==
    LET s1 == [s EXCEPT !.mem[buf] = PhyLength(frame_len),
                        !.tx_buf = buf,
                        !.transmitting = TRUE,
                        !.cca_count = 0,
                        !.cca_be = IEEE802154_MIN_BE,
                        !.attempt = NewAttempt(buf, s.alarm.pending),
                        !.txCount = @ + 1]
    IN radio_initialize(radio_off(s1))

\* a transmit() that stores the length byte before its checks
transmit_StoreFirst(s, buf, frame_len) ==
    LET moved == [s EXCEPT !.held = @ \ {buf},
                           !.mem[buf] = PhyLength(frame_len)]
        back(r) == Note([moved EXCEPT !.held = @ \cup {buf}],
                        Cb("transmit", buf, U32(frame_len), FALSE, r))
    IN IF TransmitBusy(moved) THEN back("BUSY")
       ELSE IF TransmitTooLong(frame_len, BufLen(buf)) THEN back("SIZE")
       ELSE LET done == TransmitAccept(moved, buf, frame_len)
            IN IF done.panicked THEN done
               ELSE Note(done, Cb("transmit", buf, U32(frame_len), FALSE, "Ok"))

\* fn transmit(buf, frame_len): the caller moves buf in; Err hands it back
transmit(s, buf, frame_len) ==
    LET moved == [s EXCEPT !.held = @ \ {buf}]
        back(r) == Note([moved EXCEPT !.held = @ \cup {buf}],
                        Cb("transmit", buf, U32(frame_len), FALSE, r))
    IN IF TransmitBusy(moved) THEN back("BUSY")
       ELSE IF TransmitTooLong(frame_len, BufLen(buf)) THEN back("SIZE")
       ELSE LET done == TransmitAccept(moved, buf, frame_len)
            IN IF done.panicked THEN done
               ELSE Note(done, Cb("transmit", buf, U32(frame_len), FALSE, "Ok"))

(***************************************************************************)
(* RadioData: the receive buffer and the clients                           *)
(***************************************************************************)
\* fn set_receive_buffer: rx_buf.replace(buffer) drops what the slot held
set_receive_buffer(s, buffer) ==
    [s EXCEPT !.held = @ \ {buffer}, !.rx_buf = buffer]

\* fn set_receive_client
set_receive_client(s, buffer) ==
    [s EXCEPT !.rx_client = TRUE, !.held = @ \ {buffer}, !.rx_buf = buffer]

\* fn set_transmit_client
set_transmit_client(s) == [s EXCEPT !.tx_client = TRUE]

\* fn set_timer_ref
set_timer_ref(s) == [s EXCEPT !.timer0 = TRUE]

(***************************************************************************)
(* The client callbacks.  c is what the clients choose to do in them:      *)
(* c.sd = "transmit" sends the returned buffer again from send_done,       *)
(* c.rc = "refill" hands the buffer back from receive.                     *)
(***************************************************************************)
\* TxClient::send_done(buf, acked, result)
send_done(s, tbuf, acked, result, c) ==
    LET s1 == Note([s EXCEPT !.held = @ \cup {tbuf},
                             !.doneCount = @ + 1,
                             !.attempt.done = IF tbuf = s.attempt.buf
                                              THEN @ + 1 ELSE @],
                   [Cb("send_done", tbuf, <<0, 0>>, acked, result)
                       EXCEPT !.att = [s.attempt EXCEPT
                                          !.done = IF tbuf = s.attempt.buf
                                                   THEN @ + 1 ELSE @]])
    IN IF c.sd = "transmit" THEN transmit(s1, tbuf, c.frame_len) ELSE s1

\* RxClient::receive(buf, frame_len, crc_ok, result)
receive(s, rbuf, frame_len, crc_ok, result, c) ==
    LET s1 == Note([s EXCEPT !.held = @ \cup {rbuf}],
                   Cb("receive", rbuf, frame_len, crc_ok, result))
    IN IF c.rc = "refill" THEN set_receive_buffer(s1, rbuf) ELSE s1

(***************************************************************************)
(* Radio::handle_interrupt, branch by branch                               *)
(***************************************************************************)
\* a READY branch that starts a CCA whenever a transmit is in progress
ReadyStartsCca_AnyState(s) == s.transmitting

\* a READY branch that starts a CCA in RXIDLE whether transmitting or not
ReadyStartsCca_IgnoreFlag(s) == s.registers.state = RADIO_STATE_RXIDLE

\* self.transmitting.get() && state == RADIO_STATE_RXIDLE
ReadyStartsCca(s) ==
    s.transmitting /\ s.registers.state = RADIO_STATE_RXIDLE

\* a READY branch that leaves EVENTS_END as it is
ReadyBranch_KeepEnd(s) ==
    IF s.panicked \/ s.registers.event_ready = 0 THEN s
    ELSE LET s1 == WriteReg(s, "event_ready", 0)
         IN IF ReadyStartsCca(s1) THEN WriteTask(s1, "ccastart")
            ELSE WriteTask(s1, "start")

\* if event_ready.is_set
ReadyBranch(s) ==
    IF s.panicked \/ s.registers.event_ready = 0 THEN s
    ELSE LET s1 == WriteReg(WriteReg(s, "event_ready", 0), "event_end", 0)
         IN IF ReadyStartsCca(s1) THEN WriteTask(s1, "ccastart")
            ELSE WriteTask(s1, "start")

\* if event_framestart.is_set
FrameStartBranch(s) ==
    IF s.panicked \/ s.registers.event_framestart = 0 THEN s
    ELSE WriteReg(s, "event_framestart", 0)

\* if event_ccaidle.is_set
CcaIdleBranch(s) ==
    IF s.panicked \/ s.registers.event_ccaidle = 0 THEN s
    ELSE WriteTask(WriteReg(s, "event_ccaidle", 0), "txen")

\* a retry check that allows one more backoff
MayBackoff_Inclusive(count) == count <= IEEE802154_MAX_POLLING_ATTEMPTS

\* self.cca_count.get() < IEEE802154_MAX_POLLING_ATTEMPTS
MayBackoff(count) == count < IEEE802154_MAX_POLLING_ATTEMPTS

\* self.cca_be.set(self.cca_be.get() + 1)
NextBe(be) == be + 1

\* timer0.set_alarm(0, backoff_periods * IEEE802154_BACKOFF_PERIOD)
set_alarm(s, periods) ==
    Note([s EXCEPT !.alarm = [pending |-> TRUE,
                              dt |-> periods * IEEE802154_BACKOFF_PERIOD],
                   !.attempt.set = @ + 1],
         Ev("set_alarm"))

\* a backoff arm that does not count the attempt
Backoff_NoCount(s) ==
    LET s1 == random_nonce_step([s EXCEPT !.cca_be = NextBe(@)])
        periods == BackoffPeriods(s1.random_nonce, s1.cca_be)
    IN IF ~s1.timer0 THEN Panic(s1) ELSE set_alarm(s1, periods)

\* the backoff arm of the CCABUSY branch
Backoff(s) ==
    LET s1 == random_nonce_step(
                  [s EXCEPT !.cca_count = @ + 1, !.cca_be = NextBe(@)])
        periods == BackoffPeriods(s1.random_nonce, s1.cca_be)
    IN IF ~s1.timer0 THEN Panic(s1) ELSE set_alarm(s1, periods)

\* a give-up arm that leaves transmitting set
GiveUp_KeepFlag(s, c) ==
    IF ~s.tx_client THEN s
    ELSE IF s.tx_buf = None THEN Panic(s)
    ELSE send_done([s EXCEPT !.tx_buf = None], s.tx_buf, FALSE, "BUSY", c)

\* a give-up arm that drops the buffer when there is no TX client
GiveUp_DropBuffer(s, c) ==
    LET s1 == [s EXCEPT !.transmitting = FALSE]
    IN IF ~s1.tx_client THEN [s1 EXCEPT !.tx_buf = None]
       ELSE IF s1.tx_buf = None THEN Panic(s1)
       ELSE send_done([s1 EXCEPT !.tx_buf = None], s1.tx_buf, FALSE, "BUSY", c)

\* the arm of the CCABUSY branch that gives up: send_done(Err(BUSY))
GiveUp(s, c) ==
    LET s1 == [s EXCEPT !.transmitting = FALSE]
    IN IF ~s1.tx_client THEN s1
       ELSE IF s1.tx_buf = None THEN Panic(s1)
       ELSE send_done([s1 EXCEPT !.tx_buf = None], s1.tx_buf, FALSE, "BUSY", c)

\* if event_ccabusy.is_set
CcaBusyBranch(s, c) ==
    IF s.panicked \/ s.registers.event_ccabusy = 0 THEN s
    ELSE LET s1 == WriteReg(WriteReg(s, "event_ccabusy", 0), "event_ready", 0)
             s2 == WriteReg(DisableAndWait(s1), "event_disabled", 0)
             s3 == [s2 EXCEPT !.attempt.busy = @ + 1]
             s4 == IF MayBackoff(s3.cca_count) THEN Backoff(s3)
                   ELSE GiveUp(s3, c)
         IN IF s4.panicked THEN s4 ELSE enable_interrupts(s4)

TxFamily == {RADIO_STATE_TXRU, RADIO_STATE_TXIDLE, RADIO_STATE_TXDISABLE,
             RADIO_STATE_TX}
RxFamily == {RADIO_STATE_RXRU, RADIO_STATE_RXIDLE, RADIO_STATE_RXDISABLE,
             RADIO_STATE_RX}

\* a TX-family arm that reports the CRC status of the frame sent
EndTx_CrcResult(s, c) ==
    LET s1 == [s EXCEPT !.transmitting = FALSE]
        result == IF s1.registers.crcstatus % 2 = 1 THEN "Ok" ELSE "FAIL"
    IN IF ~s1.tx_client THEN s1
       ELSE IF s1.tx_buf = None THEN Panic(s1)
       ELSE send_done([s1 EXCEPT !.tx_buf = None], s1.tx_buf, FALSE, result, c)

\* a TX-family arm that hands the buffer out and keeps it in tx_buf
EndTx_KeepBuffer(s, c) ==
    LET s1 == [s EXCEPT !.transmitting = FALSE]
    IN IF ~s1.tx_client THEN s1
       ELSE IF s1.tx_buf = None THEN Panic(s1)
       ELSE send_done(s1, s1.tx_buf, FALSE, "Ok", c)

\* the TX-family arm of the END branch
EndTx(s, c) ==
    LET s1 == [s EXCEPT !.transmitting = FALSE]
    IN IF ~s1.tx_client THEN s1
       ELSE IF s1.tx_buf = None THEN Panic(s1)
       ELSE send_done([s1 EXCEPT !.tx_buf = None], s1.tx_buf, FALSE, "Ok", c)

\* rbuf[MIMIC_PSDU_OFFSET] as usize - radio::MFR_SIZE, a 32-bit usize: below
\* MFR_SIZE the subtraction wraps when the build has overflow checks off ...
RxFrameLen(byte) ==
    IF byte >= MFR_SIZE THEN U32(byte - MFR_SIZE)
    ELSE <<TwoTo16 - 1, TwoTo16 + byte - MFR_SIZE>>

\* ... and panics when it has them on
RxFrameLenPanics(byte, ovf) == byte < MFR_SIZE /\ ovf = "panic"

\* the RX-family arm of the END branch
EndRx(s, result, c) ==
    IF ~s.rx_client THEN s
    ELSE IF s.rx_buf = None THEN Panic(s)
    ELSE LET rbuf == s.rx_buf
             s1 == [s EXCEPT !.rx_buf = None]
         IN IF RxFrameLenPanics(s.mem[rbuf], c.ovf) THEN Panic(s1)
            ELSE receive(s1, rbuf, RxFrameLen(s.mem[rbuf]),
                         s1.registers.crcstatus = 1, result, c)

\* an END branch that goes back to receive without the power cycle
EndBranch_NoPowerCycle(s, c) ==
    IF s.panicked \/ s.registers.event_end = 0 THEN s
    ELSE LET s1 == WriteReg(s, "event_end", 0)
             result == IF s1.registers.crcstatus % 2 = 1 THEN "Ok" ELSE "FAIL"
             st == s1.registers.state
             s2 == IF st \in TxFamily THEN EndTx(s1, c)
                   ELSE IF st \in RxFamily THEN EndRx(s1, result, c)
                   ELSE s1
         IN rx(s2)

\* if event_end.is_set
EndBranch(s, c) ==
    IF s.panicked \/ s.registers.event_end = 0 THEN s
    ELSE LET s1 == WriteReg(s, "event_end", 0)
             result == IF s1.registers.crcstatus % 2 = 1 THEN "Ok" ELSE "FAIL"
             st == s1.registers.state
             s2 == IF st \in TxFamily THEN EndTx(s1, c)
                   ELSE IF st \in RxFamily THEN EndRx(s1, result, c)
                   ELSE s1
         IN rx(radio_initialize(
                IF s2.panicked THEN s2 ELSE radio_off(s2)))

\* a handler that does not mask the interrupts on entry
handle_interrupt_NoMask(s, c) ==
    LET s1 == EndBranch(
                  CcaBusyBranch(
                      CcaIdleBranch(
                          FrameStartBranch(ReadyBranch(s))), c), c)
    IN IF s1.panicked THEN s1 ELSE enable_interrupts(s1)

\* pub fn handle_interrupt
handle_interrupt(s, c) ==
    LET s1 == EndBranch(
                  CcaBusyBranch(
                      CcaIdleBranch(
                          FrameStartBranch(
                              ReadyBranch(disable_all_interrupts(s)))), c), c)
    IN IF s1.panicked THEN s1 ELSE enable_interrupts(s1)

\* AlarmClient::alarm
alarm_fired(s) == rx([s EXCEPT !.alarm = [pending |-> FALSE, dt |-> 0],
                               !.attempt.fired = @ + 1])

(***************************************************************************)
(* RadioStateMachine<S>: the peripheral-state tracker                      *)
(***************************************************************************)
\* the nine type states S of RadioStateMachine<S>, the variants of
\* RadioStateMachineWrapper
TrackerStates == {"Disabled", "RxRu", "RxIdle", "Rx", "TxRu", "TxIdle", "Tx",
                  "RxDisable", "TxDisable"}

\* the conversions without the two that cross sides from an idle state
FromImpls_ThroughDisabled ==
    {<<"RxDisable", "Disabled">>, <<"TxDisable", "Disabled">>,
     <<"TxRu", "TxDisable">>, <<"TxIdle", "TxDisable">>, <<"Tx", "TxDisable">>,
     <<"RxRu", "RxDisable">>, <<"RxIdle", "RxDisable">>, <<"Rx", "RxDisable">>,
     <<"Disabled", "TxRu">>, <<"TxIdle", "TxRu">>,
     <<"Disabled", "RxRu">>, <<"RxIdle", "RxRu">>,
     <<"TxRu", "TxIdle">>, <<"Tx", "TxIdle">>,
     <<"RxRu", "RxIdle">>, <<"Rx", "RxIdle">>,
     <<"TxIdle", "Tx">>, <<"RxIdle", "Rx">>}

\* impl From<RadioStateMachine<A>> for RadioStateMachine<B>, as <<A, B>>
FromImpls ==
    {<<"RxDisable", "Disabled">>, <<"TxDisable", "Disabled">>,
     <<"TxRu", "TxDisable">>, <<"TxIdle", "TxDisable">>, <<"Tx", "TxDisable">>,
     <<"RxRu", "RxDisable">>, <<"RxIdle", "RxDisable">>, <<"Rx", "RxDisable">>,
     <<"Disabled", "TxRu">>, <<"TxIdle", "TxRu">>, <<"RxIdle", "TxRu">>,
     <<"Disabled", "RxRu">>, <<"TxIdle", "RxRu">>, <<"RxIdle", "RxRu">>,
     <<"TxRu", "TxIdle">>, <<"Tx", "TxIdle">>,
     <<"RxRu", "RxIdle">>, <<"Rx", "RxIdle">>,
     <<"TxIdle", "Tx">>, <<"RxIdle", "Rx">>}

\* fn state_transition(self) of each RadioStateMachine<S>: the type states the
\* value passes through, from S to the state wrapped in the result, for the
\* value v read from the STATE register (a from/into of S to S itself is the
\* reflexive conversion of the language)
state_transition(st, v) ==
    CASE st = "Disabled" ->
          CASE v = RADIO_STATE_TXRU -> <<"Disabled", "TxRu">>
            [] v = RADIO_STATE_TXIDLE -> <<"Disabled", "TxRu", "TxIdle">>
            [] v = RADIO_STATE_TXDISABLE -> <<"Disabled", "TxRu", "TxDisable">>
            [] v = RADIO_STATE_TX -> <<"Disabled", "TxRu", "TxIdle", "Tx">>
            [] v = RADIO_STATE_RXRU -> <<"Disabled", "RxRu">>
            [] v = RADIO_STATE_RXIDLE -> <<"Disabled", "RxRu", "RxIdle">>
            [] v = RADIO_STATE_RXDISABLE -> <<"Disabled", "RxRu", "RxDisable">>
            [] v = RADIO_STATE_RX -> <<"Disabled", "RxRu", "RxIdle", "Rx">>
            [] OTHER -> <<"Disabled">>
      [] st = "RxRu" ->
          CASE v = RADIO_STATE_TXRU -> <<"RxRu", "RxDisable", "Disabled", "TxRu">>
            [] v = RADIO_STATE_TXIDLE -> <<"RxRu", "RxDisable", "Disabled", "TxRu", "TxIdle">>
            [] v = RADIO_STATE_TXDISABLE -> <<"RxRu", "RxDisable", "Disabled", "TxRu", "TxDisable">>
            [] v = RADIO_STATE_TX -> <<"RxRu", "RxDisable", "Disabled", "TxRu", "TxIdle", "Tx">>
            [] v = RADIO_STATE_RXIDLE -> <<"RxRu", "RxIdle">>
            [] v = RADIO_STATE_RXDISABLE -> <<"RxRu", "RxDisable">>
            [] v = RADIO_STATE_RX -> <<"RxRu", "RxIdle", "Rx">>
            [] v = RADIO_STATE_DISABLED -> <<"RxRu", "RxDisable", "Disabled">>
            [] OTHER -> <<"RxRu", "RxRu">>
      [] st = "RxIdle" ->
          CASE v = RADIO_STATE_TXRU -> <<"RxIdle", "TxRu">>
            [] v = RADIO_STATE_TXIDLE -> <<"RxIdle", "TxRu", "TxIdle">>
            [] v = RADIO_STATE_TXDISABLE -> <<"RxIdle", "TxRu", "TxDisable">>
            [] v = RADIO_STATE_TX -> <<"RxIdle", "TxRu", "TxIdle", "Tx">>
            [] v = RADIO_STATE_RXRU -> <<"RxIdle", "RxRu">>
            [] v = RADIO_STATE_RXDISABLE -> <<"RxIdle", "RxDisable">>
            [] v = RADIO_STATE_RX -> <<"RxIdle", "Rx">>
            [] v = RADIO_STATE_DISABLED -> <<"RxIdle", "RxDisable", "Disabled">>
            [] OTHER -> <<"RxIdle", "RxIdle">>
      [] st = "Rx" ->
          CASE v = RADIO_STATE_TXRU -> <<"Rx", "RxIdle", "TxRu">>
            [] v = RADIO_STATE_TXIDLE -> <<"Rx", "RxIdle", "TxRu", "TxIdle">>
            [] v = RADIO_STATE_TXDISABLE -> <<"Rx", "RxIdle", "TxRu", "TxDisable">>
            [] v = RADIO_STATE_TX -> <<"Rx", "RxIdle", "TxRu", "TxIdle", "Tx">>
            [] v = RADIO_STATE_RXRU -> <<"Rx", "RxIdle", "RxRu">>
            [] v = RADIO_STATE_RXIDLE -> <<"Rx", "RxIdle">>
            [] v = RADIO_STATE_RXDISABLE -> <<"Rx", "RxDisable">>
            [] v = RADIO_STATE_DISABLED -> <<"Rx", "RxDisable", "Disabled">>
            [] OTHER -> <<"Rx", "Rx">>
      [] st = "TxRu" ->
          CASE v = RADIO_STATE_TXIDLE -> <<"TxRu", "TxIdle">>
            [] v = RADIO_STATE_TXDISABLE -> <<"TxRu", "TxDisable">>
            [] v = RADIO_STATE_TX -> <<"TxRu", "TxIdle", "Tx">>
            [] v = RADIO_STATE_RXRU -> <<"TxRu", "TxIdle", "RxRu">>
            [] v = RADIO_STATE_RXIDLE -> <<"TxRu", "TxIdle", "RxRu", "RxIdle">>
            [] v = RADIO_STATE_RXDISABLE -> <<"TxRu", "TxIdle", "RxRu", "RxDisable">>
            [] v = RADIO_STATE_RX -> <<"TxRu", "TxIdle", "RxRu", "RxIdle", "Rx">>
            [] v = RADIO_STATE_DISABLED -> <<"TxRu", "TxDisable", "Disabled">>
            [] OTHER -> <<"TxRu", "TxRu">>
      [] st = "TxIdle" ->
          CASE v = RADIO_STATE_TXRU -> <<"TxIdle", "TxRu">>
            [] v = RADIO_STATE_TXDISABLE -> <<"TxIdle", "TxDisable">>
            [] v = RADIO_STATE_TX -> <<"TxIdle", "TxIdle", "Tx">>
            [] v = RADIO_STATE_RXRU -> <<"TxIdle", "RxRu">>
            [] v = RADIO_STATE_RXIDLE -> <<"TxIdle", "RxRu", "RxIdle">>
            [] v = RADIO_STATE_RXDISABLE -> <<"TxIdle", "RxRu", "RxDisable">>
            [] v = RADIO_STATE_RX -> <<"TxIdle", "RxRu", "RxIdle", "Rx">>
            [] v = RADIO_STATE_DISABLED -> <<"TxIdle", "TxDisable", "Disabled">>
            [] OTHER -> <<"TxIdle", "TxIdle">>
      [] st = "Tx" ->
          CASE v = RADIO_STATE_TXRU -> <<"Tx", "TxIdle", "TxRu">>
            [] v = RADIO_STATE_TXIDLE -> <<"Tx", "TxIdle">>
            [] v = RADIO_STATE_TXDISABLE -> <<"Tx", "TxDisable">>
            [] v = RADIO_STATE_RXRU -> <<"Tx", "TxIdle", "RxRu">>
            [] v = RADIO_STATE_RXIDLE -> <<"Tx", "TxIdle", "RxRu", "RxIdle">>
            [] v = RADIO_STATE_RXDISABLE -> <<"Tx", "TxIdle", "RxRu", "RxDisable">>
            [] v = RADIO_STATE_RX -> <<"Tx", "TxIdle", "RxRu", "RxIdle", "Rx">>
            [] v = RADIO_STATE_DISABLED -> <<"Tx", "TxDisable", "Disabled">>
            [] OTHER -> <<"Tx", "Tx">>
      [] st = "RxDisable" ->
          CASE v = RADIO_STATE_TXRU -> <<"RxDisable", "Disabled", "TxRu">>
            [] v = RADIO_STATE_TXIDLE -> <<"RxDisable", "Disabled", "TxRu", "TxIdle">>
            [] v = RADIO_STATE_TXDISABLE -> <<"RxDisable", "Disabled", "TxRu", "TxDisable">>
            [] v = RADIO_STATE_TX -> <<"RxDisable", "Disabled", "TxRu", "TxIdle", "Tx">>
            [] v = RADIO_STATE_RXRU -> <<"RxDisable", "Disabled", "RxRu">>
            [] v = RADIO_STATE_RXIDLE -> <<"RxDisable", "Disabled", "RxRu", "RxIdle">>
            [] v = RADIO_STATE_RX -> <<"RxDisable", "Disabled", "RxRu", "RxIdle", "Rx">>
            [] v = RADIO_STATE_DISABLED -> <<"RxDisable", "Disabled">>
            [] OTHER -> <<"RxDisable", "RxDisable">>
      [] st = "TxDisable" ->
          CASE v = RADIO_STATE_TXRU -> <<"TxDisable", "Disabled", "TxRu">>
            [] v = RADIO_STATE_TXIDLE -> <<"TxDisable", "Disabled", "TxRu", "TxIdle">>
            [] v = RADIO_STATE_TX -> <<"TxDisable", "Disabled", "TxRu", "TxIdle", "Tx">>
            [] v = RADIO_STATE_RXRU -> <<"TxDisable", "Disabled", "RxRu">>
            [] v = RADIO_STATE_RXIDLE -> <<"TxDisable", "Disabled", "RxRu", "RxIdle">>
            [] v = RADIO_STATE_RXDISABLE -> <<"TxDisable", "Disabled", "RxRu", "RxDisable">>
            [] v = RADIO_STATE_RX -> <<"TxDisable", "Disabled", "RxRu", "RxIdle", "Rx">>
            [] v = RADIO_STATE_DISABLED -> <<"TxDisable", "Disabled">>
            [] OTHER -> <<"TxDisable", "TxDisable">>

\* a handler of the wrapper that leaves the tracker as it is
Ieee802154Radio_handle_interrupt_NoTrack(s, c) == handle_interrupt(s, c)

\* self.radio_state_machine = val.state_transition(): the tracker follows
\* the STATE register read after the handler
TrackState(s1) ==
    IF s1.panicked THEN s1
    ELSE LET path == state_transition(s1.radio_state_machine,
                                      s1.registers.state)
         IN [s1 EXCEPT !.radio_state_machine = path[Len(path)]]

\* Ieee802154Radio::handle_interrupt: val.radio.handle_interrupt(), then
\* self.radio_state_machine = val.state_transition()
Ieee802154Radio_handle_interrupt(s, c) == TrackState(handle_interrupt(s, c))

(***************************************************************************)
(* RadioConfig                                                             *)
(***************************************************************************)
\* fn initialize / pub fn startup
initialize(s) == Return(radio_initialize(s), "Ok")

\* fn reset, and fn start which only calls it
reset(s) == Return(radio_on(s), "Ok")

\* fn stop
stop(s) == Return(radio_off(s), "Ok")

\* fn config_commit
config_commit(s) == radio_initialize(radio_off(s))

\* RadioChannel::try_from(chan) as u32: the discriminant of the channel the
\* match arm names, or -1 for Err(())
ChannelTryFrom(chan) ==
    CASE chan = 11 -> 5  [] chan = 12 -> 10 [] chan = 13 -> 15
      [] chan = 14 -> 20 [] chan = 15 -> 25 [] chan = 16 -> 30
      [] chan = 17 -> 35 [] chan = 18 -> 40 [] chan = 19 -> 45
      [] chan = 20 -> 50 [] chan = 21 -> 55 [] chan = 22 -> 60
      [] chan = 23 -> 65 [] chan = 24 -> 70 [] chan = 25 -> 75
      [] chan = 26 -> 80 [] OTHER -> -1

\* a set_channel that computes the frequency without validating the channel
set_channel_Unchecked(s, chan) ==
    Return([s EXCEPT !.channel = 5 * (chan - 11) + 5], "Ok")

\* fn set_channel
set_channel(s, chan) ==
    IF ChannelTryFrom(chan) < 0 THEN Return(s, "NOSUPPORT")
    ELSE Return([s EXCEPT !.channel = ChannelTryFrom(chan)], "Ok")

\* fn start: let _ = self.reset(); Ok(())
start(s) == Return(reset(s), "Ok")

\* RadioChannel::get_channel_index
get_channel_index(ch) ==
    CASE ch = 5 -> 11  [] ch = 10 -> 12 [] ch = 15 -> 13
      [] ch = 20 -> 14 [] ch = 25 -> 15 [] ch = 30 -> 16
      [] ch = 35 -> 17 [] ch = 40 -> 18 [] ch = 45 -> 19
      [] ch = 50 -> 20 [] ch = 55 -> 21 [] ch = 60 -> 22
      [] ch = 65 -> 23 [] ch = 70 -> 24 [] ch = 75 -> 25
      [] ch = 80 -> 26

\* tx_power as u8 of an i8, and tx_power.get() as i8 of the discriminant
I8AsU8(p) == (p + 256) % 256
U8AsI8(v) == IF v >= 128 THEN v - 256 ELSE v

\* the discriminants of nrf5x::constants::TxPower: +4, +3, 0, -4, -8, -12,
\* -16, -20 and -40 dBm as two's-complement bytes
TxPowers == {4, 3, 0, 252, 248, 244, 240, 236, 216}

\* TxPower::try_from(byte) as u32: the discriminant, or -1 for Err(())
TxPowerTryFrom(byte) == IF byte \in TxPowers THEN byte ELSE -1

\* a set_tx_power() that writes the TXPOWER register at once
set_tx_power_WriteThrough(s, p) ==
    IF TxPowerTryFrom(I8AsU8(p)) < 0 THEN Return(s, "NOSUPPORT")
    ELSE Return(WriteReg([s EXCEPT !.tx_power = TxPowerTryFrom(I8AsU8(p))],
                         "txpower", TxPowerTryFrom(I8AsU8(p))), "Ok")

\* fn set_tx_power(&self, tx_power: i8) of RadioConfig
set_tx_power(s, p) ==
    IF TxPowerTryFrom(I8AsU8(p)) < 0 THEN Return(s, "NOSUPPORT")
    ELSE Return([s EXCEPT !.tx_power = TxPowerTryFrom(I8AsU8(p))], "Ok")

\* the mutators of the addresses
set_address(s, a) == [s EXCEPT !.addr = a]
set_address_long(s, a) == [s EXCEPT !.addr_long = a]
\* a set_pan that stores into the short address
set_pan_IntoAddr(s, id) == [s EXCEPT !.addr = id]
set_pan(s, id) == [s EXCEPT !.pan = id]

\* the accessors
get_address(s) == s.addr
get_address_long(s) == s.addr_long
get_pan(s) == s.pan
get_tx_power(s) == U8AsI8(s.tx_power)
get_channel(s) == get_channel_index(s.channel)

\* the accessors of Ieee802154Radio: every arm of the match on the tracker
\* state forwards to the Radio it wraps
Ieee802154Radio_get_address(t, s) ==
    CASE t \in TrackerStates -> get_address(s)
Ieee802154Radio_get_address_long(t, s) ==
    CASE t \in TrackerStates -> get_address_long(s)
Ieee802154Radio_get_pan(t, s) ==
    CASE t \in TrackerStates -> get_pan(s)
Ieee802154Radio_get_tx_power(t, s) ==
    CASE t \in TrackerStates -> get_tx_power(s)
Ieee802154Radio_get_channel(t, s) ==
    CASE t \in TrackerStates -> get_channel(s)

(***************************************************************************)
(* Initial state: Radio::new() and the peripheral after power-on reset     *)
(***************************************************************************)
Init ==
    /\ tx_power = ZerodBm
    /\ rx_client = FALSE
    /\ tx_client = FALSE
    /\ tx_buf = None
    /\ rx_buf = None
    /\ cca_count = 0
    /\ cca_be = 0
    /\ random_nonce = NONCE_SEED
    /\ channel = DataChannel26
    /\ transmitting = FALSE
    /\ timer0 = FALSE
    /\ registers = ResetRegisters(1)
    /\ periph = IdlePeriph
    /\ alarm = [pending |-> FALSE, dt |-> 0]
    /\ held = Bufs
    /\ mem = [b \in Bufs |-> 0]
    /\ panicked = FALSE
    /\ last = [op |-> "new", result |-> "-", trace |-> <<>>, latched |-> {}]
    /\ attempt = NoAttempt
    /\ txCount = 0
    /\ callCount = 0
    /\ doneCount = 0
    /\ addr = 0
    /\ addr_long = [i \in 1..8 |-> 0]
    /\ pan = 0
    /\ radio_state_machine = "Disabled"

(***************************************************************************)
(* Inputs                                                                  *)
(***************************************************************************)
\* frame lengths handed to transmit(): one that fits every buffer and one
\* that fits none
FrameLens == {10, 258}
\* channels handed to set_channel()
ChannelInputs == {10, 26}
\* length bytes of received frames
RxLens == {17}
\* what the clients do inside their callbacks, and what the build does on
\* the underflow of the received length (a choice only where it can occur)
Choices(s) ==
    [sd : IF s.txCount < MaxTransmits THEN {"none", "transmit"} ELSE {"none"},
     frame_len : {10},
     rc : {"none", "refill"},
     ovf : IF s.rx_buf # None /\ s.mem[s.rx_buf] < MFR_SIZE
           THEN {"panic", "wrap"} ELSE {"wrap"}]

\* a call from thread mode: it starts the history of the operation
Call(op) ==
    LET s == Begin(Cur, op)
    IN [s EXCEPT !.attempt.disturbed = (s.attempt.buf # None)]

\* a call that counts against MaxCalls
Counted(op) == [Call(op) EXCEPT !.callCount = @ + 1]

\* the clients and the timer are registered before the driver is used
Setup == last.op \in {"new", "set_transmit_client", "set_receive_client",
                      "set_timer_ref"}

(***************************************************************************)
(* Thread-mode calls of the capsules                                       *)
(***************************************************************************)
SetTransmitClient ==
    /\ ~panicked
    /\ Setup /\ ~tx_client
    /\ Commit(set_transmit_client(Call("set_transmit_client")))

SetReceiveClient ==
    /\ ~panicked
    /\ Setup /\ ~rx_client
    /\ \E b \in held : Commit(set_receive_client(Call("set_receive_client"), b))

SetReceiveBuffer ==
    /\ ~panicked
    /\ callCount < MaxCalls
    /\ \E b \in held :
          Commit(set_receive_buffer(Counted("set_receive_buffer"), b))

SetTimerRef ==
    /\ ~panicked
    /\ Setup /\ ~timer0
    /\ Commit(set_timer_ref(Call("set_timer_ref")))

Transmit ==
    /\ ~panicked
    /\ \E b \in held, n \in FrameLens :
          /\ \/ txCount < MaxTransmits
             \/ TransmitBusy(Cur)
             \/ TransmitTooLong(n, BufLen(b))
          /\ Commit(transmit(Call("transmit"), b, n))

Initialize ==
    /\ ~panicked
    /\ callCount < MaxCalls
    /\ Commit(initialize(Counted("initialize")))

Reset ==
    /\ ~panicked
    /\ callCount < MaxCalls
    /\ Commit(reset(Counted("reset")))

Stop ==
    /\ ~panicked
    /\ callCount < MaxCalls
    /\ Commit(stop(Counted("stop")))

ConfigCommit ==
    /\ ~panicked
    /\ callCount < MaxCalls
    /\ Commit(config_commit(Counted("config_commit")))

DoSetChannel(k) ==
    /\ ~panicked
    /\ Commit(set_channel(Counted("set_channel"), k))

SetChannel ==
    /\ callCount < MaxCalls
    /\ \E k \in ChannelInputs : DoSetChannel(k)

DoSetTxPower(p) ==
    /\ ~panicked
    /\ Commit(set_tx_power(Counted("set_tx_power"), p))


(***************************************************************************)
(* The peripheral                                                          *)
(***************************************************************************)
\* ramp-up ends: RXRU -> RXIDLE, TXRU -> TXIDLE, EVENTS_READY
HwReady ==
    /\ ~panicked
    /\ registers.power = 1
    /\ registers.state \in {RADIO_STATE_RXRU, RADIO_STATE_TXRU}
    /\ registers' = [registers EXCEPT
          !.state = IF @ = RADIO_STATE_RXRU THEN RADIO_STATE_RXIDLE
                    ELSE RADIO_STATE_TXIDLE,
          !.event_ready = 1]
    /\ UNCHANGED <<tx_power, rx_client, tx_client, tx_buf, rx_buf, cca_count,
                   cca_be, random_nonce, channel, transmitting, timer0, periph,
                   alarm, held, mem, panicked, last, attempt, txCount,
                   callCount, doneCount, addr, addr_long, pan,
          radio_state_machine>>

\* a clear channel assessment ends: EVENTS_CCAIDLE or EVENTS_CCABUSY
HwCca ==
    /\ ~panicked
    /\ registers.power = 1
    /\ periph.cca
    /\ \E e \in {"event_ccaidle", "event_ccabusy"} :
          /\ registers' = [registers EXCEPT ![e] = 1]
          /\ periph' = [periph EXCEPT
                           !.cca = FALSE,
                           !.verdict = IF e = "event_ccaidle" THEN "idle"
                                       ELSE "busy"]
    /\ UNCHANGED <<tx_power, rx_client, tx_client, tx_buf, rx_buf, cca_count,
                   cca_be, random_nonce, channel, transmitting, timer0,
                   alarm, held, mem, panicked, last, attempt, txCount,
                   callCount, doneCount, addr, addr_long, pan,
          radio_state_machine>>

\* a frame starts, on air in RX or out of the buffer in TX: EVENTS_FRAMESTART
HwFrameStart ==
    /\ ~panicked
    /\ registers.power = 1
    /\ registers.state \in {RADIO_STATE_RX, RADIO_STATE_TX}
    /\ ~periph.inframe
    /\ registers' = [registers EXCEPT !.event_framestart = 1]
    /\ periph' = [periph EXCEPT !.inframe = TRUE]
    /\ UNCHANGED <<tx_power, rx_client, tx_client, tx_buf, rx_buf, cca_count,
                   cca_be, random_nonce, channel, transmitting, timer0,
                   alarm, held, mem, panicked, last, attempt, txCount,
                   callCount, doneCount, addr, addr_long, pan,
          radio_state_machine>>

\* the buffer PACKETPTR points into
DmaTarget == {b \in Bufs : BufBase(b) + MIMIC_PSDU_OFFSET = registers.packetptr}

\* the frame ends: EVENTS_END, CRCSTATUS, back to the idle state; a received
\* frame has been written at PACKETPTR, length byte first
HwEndWith(lens) ==
    /\ ~panicked
    /\ registers.power = 1
    /\ registers.state \in {RADIO_STATE_RX, RADIO_STATE_TX}
    /\ periph.inframe
    /\ \E crc \in {0, 1} :
          registers' = [registers EXCEPT
              !.state = IF @ = RADIO_STATE_RX THEN RADIO_STATE_RXIDLE
                        ELSE RADIO_STATE_TXIDLE,
              !.event_end = 1,
              !.crcstatus = crc]
    /\ periph' = [periph EXCEPT !.inframe = FALSE,
                                !.rxend = (registers.state = RADIO_STATE_RX)]
    /\ IF registers.state = RADIO_STATE_RX
       THEN \E n \in lens :
               mem' = [b \in Bufs |-> IF b \in DmaTarget THEN n ELSE mem[b]]
       ELSE mem' = mem
    /\ UNCHANGED <<tx_power, rx_client, tx_client, tx_buf, rx_buf, cca_count,
                   cca_be, random_nonce, channel, transmitting, timer0,
                   alarm, held, panicked, last, attempt, txCount,
                   callCount, doneCount, addr, addr_long, pan,
          radio_state_machine>>

HwEnd == HwEndWith(RxLens)

(***************************************************************************)
(* The interrupt handlers                                                  *)
(***************************************************************************)
\* the latched events whose interrupt is enabled
Pending ==
    {i \in registers.inten :
        \/ i = "READY" /\ registers.event_ready = 1
        \/ i = "CCAIDLE" /\ registers.event_ccaidle = 1
        \/ i = "CCABUSY" /\ registers.event_ccabusy = 1
        \/ i = "END" /\ registers.event_end = 1
        \/ i = "FRAMESTART" /\ registers.event_framestart = 1
        \/ i = "DISABLED" /\ registers.event_disabled = 1}

\* the radio interrupt
HandleInterrupt ==
    /\ ~panicked
    /\ registers.power = 1
    /\ Pending # {}
    /\ \E c \in Choices(Cur) :
          Commit(handle_interrupt(Begin(Cur, "handle_interrupt"), c))

\* the timer interrupt of the backoff alarm
Alarm ==
    /\ ~panicked
    /\ alarm.pending
    /\ Commit(alarm_fired(Begin(Cur, "alarm")))

Next ==
    \/ SetTransmitClient
    \/ SetReceiveClient
    \/ SetReceiveBuffer
    \/ SetTimerRef
    \/ Transmit
    \/ Initialize
    \/ Reset
    \/ Stop
    \/ ConfigCommit
    \/ SetChannel
    \/ HwReady
    \/ HwCca
    \/ HwFrameStart
    \/ HwEnd
    \/ HandleInterrupt
    \/ Alarm

Spec == Init /\ [][Next]_vars

\* the radio interrupt can be taken.  The handler clears every event it
\* serves, so this is when a HandleInterrupt step that changes the state
\* exists
IrqPending == ~panicked /\ registers.power = 1 /\ Pending # {}

\* the peripheral finishes what a task started, and latched interrupts and
\* the alarm are served; frames to receive need not arrive.  The last
\* conjunct is weak fairness of HandleInterrupt with its enabling condition
\* written out as IrqPending
HwTxStart == HwFrameStart /\ registers.state = RADIO_STATE_TX
Fairness ==
    /\ WF_vars(HwReady)
    /\ WF_vars(HwCca)
    /\ WF_vars(HwTxStart)
    /\ WF_vars(HwEnd)
    /\ WF_vars(Alarm)
    /\ ([]<>(~IrqPending) \/ []<><<HandleInterrupt>>_vars)

FairSpec == Spec /\ Fairness

\* the driver under the peripheral's events and the alarm alone: after the
\* registrations the only calls are transmit()
NextEvents ==
    \/ SetTransmitClient
    \/ SetReceiveClient
    \/ SetTimerRef
    \/ Transmit
    \/ HwReady
    \/ HwCca
    \/ HwFrameStart
    \/ HwEnd
    \/ HandleInterrupt
    \/ Alarm

FairEvents == Init /\ [][NextEvents]_vars /\ Fairness

\* the size check of transmit() on a fresh engine, for every frame length
MaxFrameLen == 262
TransmitAny ==
    /\ last.op = "new"
    /\ \E b \in held, n \in 0..MaxFrameLen :
          Commit(transmit(Call("transmit"), b, n))

SpecSize == Init /\ [][TransmitAny]_vars

\* the configuration interface on an engine with its RX buffer registered:
\* up to MaxConfigCalls calls of the mutators, config_commit(), initialize()
\* and start(), in any order and with every argument
MaxConfigCalls == 3
ConfigChannels == 9 .. 28
ConfigPowers == {4, 3, 0, -4, -8, -12, -16, -20, -40, 5, -1, -41}
AddrInputs == {4660}
LongAddrInputs == {[i \in 1..8 |-> i]}
PanInputs == {43981}

DoSetAddress(a) ==
    /\ ~panicked
    /\ Commit(set_address(Counted("set_address"), a))
DoSetAddressLong(a) ==
    /\ ~panicked
    /\ Commit(set_address_long(Counted("set_address_long"), a))
DoSetPan(id) ==
    /\ ~panicked
    /\ Commit(set_pan(Counted("set_pan"), id))
DoConfigCommit ==
    /\ ~panicked
    /\ Commit(config_commit(Counted("config_commit")))
DoInitialize ==
    /\ ~panicked
    /\ Commit(initialize(Counted("initialize")))
DoStart ==
    /\ ~panicked
    /\ Commit(start(Counted("start")))

CfgSetChannel == \E k \in ConfigChannels : DoSetChannel(k)
CfgSetTxPower == \E p \in ConfigPowers : DoSetTxPower(p)
CfgSetAddress == \E a \in AddrInputs : DoSetAddress(a)
CfgSetAddressLong == \E a \in LongAddrInputs : DoSetAddressLong(a)
CfgSetPan == \E id \in PanInputs : DoSetPan(id)

NextConfig ==
    \/ SetReceiveClient
    \/ /\ callCount < MaxConfigCalls
       /\ \/ CfgSetChannel
          \/ CfgSetTxPower
          \/ CfgSetAddress
          \/ CfgSetAddressLong
          \/ CfgSetPan
          \/ DoConfigCommit
          \/ DoInitialize
          \/ DoStart

SpecConfig == Init /\ [][NextConfig]_vars

(***************************************************************************)
(* Staged configuration: the driver in use, with a channel and a power     *)
(* that differ from those of Radio::new() set at any moment                *)
(***************************************************************************)
StagedChannels == {15}
StagedPowers == {-4}

StageChannel ==
    /\ callCount < MaxCalls
    /\ \E k \in StagedChannels : DoSetChannel(k)

StageTxPower ==
    /\ callCount < MaxCalls
    /\ \E p \in StagedPowers : DoSetTxPower(p)

NextStaged ==
    \/ SetTransmitClient
    \/ SetReceiveClient
    \/ SetReceiveBuffer
    \/ SetTimerRef
    \/ Transmit
    \/ Initialize
    \/ Reset
    \/ Stop
    \/ ConfigCommit
    \/ StageChannel
    \/ StageTxPower
    \/ HwReady
    \/ HwCca
    \/ HwFrameStart
    \/ HwEnd
    \/ HandleInterrupt
    \/ Alarm

SpecStaged == Init /\ [][NextStaged]_vars

(***************************************************************************)
(* Reception of any frame: the length byte is what the sender put on air,  *)
(* also one below the two bytes of the FCS                                 *)
(***************************************************************************)
RxAnyLens == {1, 17}

HwEndAny == HwEndWith(RxAnyLens)

NextRx ==
    \/ SetTransmitClient
    \/ SetReceiveClient
    \/ SetReceiveBuffer
    \/ SetTimerRef
    \/ Transmit
    \/ Initialize
    \/ Reset
    \/ Stop
    \/ ConfigCommit
    \/ SetChannel
    \/ HwReady
    \/ HwCca
    \/ HwFrameStart
    \/ HwEndAny
    \/ HandleInterrupt
    \/ Alarm

SpecRx == Init /\ [][NextRx]_vars

(***************************************************************************)
(* Properties                                                              *)
(***************************************************************************)
\* the entries of the last operation's history
Entries == {last.trace[i] : i \in DOMAIN last.trace}
SendDones == {e \in Entries : e.ev = "send_done"}
\* the return of the last transmit() call made from thread mode
TransmitRet == last.trace[Len(last.trace)]
\* an accepted transmit() has had no send_done yet
InFlight == attempt.buf # None /\ attempt.done = 0
\* every send_done carries the buffer of the attempt it ends, once
SendDoneWellFormed ==
    /\ attempt.done <= 1
    /\ doneCount <= txCount
    /\ \A e \in SendDones :
          /\ e.buf = e.att.buf
          /\ e.att.done = 1
          /\ e.result \in {"Ok", "BUSY"}

C2_SingleInFlight ==
    [][Transmit =>
         LET e == last'.trace[Len(last'.trace)]
         IN /\ (InFlight \/ tx_buf # None \/ transmitting)
                  => e.result = "BUSY"
            /\ (~InFlight /\ PSDU_OFFSET + Int32(e.frame_len) < BufLen(e.buf))
                  => e.result = "Ok"]_vars

C2_Witness ==
    /\ last.op = "transmit"
    /\ InFlight
    /\ TransmitRet.result = "BUSY"
    /\ TransmitRet.buf # attempt.buf

\* C3: every buffer handed to the driver is in exactly one place: with a
\* client, in tx_buf or in rx_buf; none is lost and none is in two places.
C3_BufferConservation ==
    \A b \in Bufs :
        Cardinality({p \in {"client", "tx_buf", "rx_buf"} :
                        \/ p = "client" /\ b \in held
                        \/ p = "tx_buf" /\ tx_buf = b
                        \/ p = "rx_buf" /\ rx_buf = b}) = 1

\* C4, as stated: send_done(Err(BUSY)) fires after exactly
\* MAX_POLLING_ATTEMPTS CCABUSY events of the transmit.
C4_Original ==
    \A e \in SendDones :
        e.result = "BUSY" => e.att.busy = IEEE802154_MAX_POLLING_ATTEMPTS

\* C4, amended: send_done(buf, false, Err(BUSY)) fires in the handler of the
\* fifth CCABUSY event of the transmit (MAX_POLLING_ATTEMPTS + 1), the four
\* before it having each scheduled a backoff; with a TX client registered the
\* fifth CCABUSY event always ends the transmit.
C4_BusyAfterFiveEvents ==
    /\ \A e \in SendDones :
          e.result = "BUSY" =>
              /\ e.att.busy = IEEE802154_MAX_POLLING_ATTEMPTS + 1
              /\ e.att.set = IEEE802154_MAX_POLLING_ATTEMPTS
              /\ ~e.flag
    /\ attempt.busy <= IEEE802154_MAX_POLLING_ATTEMPTS + 1
    /\ (attempt.busy = IEEE802154_MAX_POLLING_ATTEMPTS + 1 /\ tx_client)
          => attempt.done = 1

C4_Witness ==
    \E e \in SendDones :
        e.result = "BUSY" /\ e.att.busy = IEEE802154_MAX_POLLING_ATTEMPTS + 1

\* C5: the backoff exponent never exceeds MAX_BE.
C5_BeClamped == cca_be <= IEEE802154_MAX_BE

C7_ListensAfterCallback ==
    (last.op = "handle_interrupt" /\ ~panicked
        /\ \E i \in DOMAIN last.trace :
              last.trace[i].ev \in {"send_done", "receive"})
    => /\ \E i, j \in DOMAIN last.trace :
             /\ last.trace[i].ev \in {"send_done", "receive"}
             /\ j > i
             /\ last.trace[j].ev = "task_rxen"
       /\ registers.inten = RadioInterrupts
       /\ ~transmitting =>
             /\ rx_buf # None
             /\ registers.packetptr = BufBase(rx_buf) + MIMIC_PSDU_OFFSET

\* C8: with the TX client and the timer registered, an accepted transmit
\* ends in send_done whatever public operations are called meanwhile, as
\* long as the peripheral's events, the interrupts and the alarms are served.
C8_NoAbort ==
    \A k \in 1..MaxTransmits :
        (txCount = k /\ tx_client /\ timer0) ~> (doneCount >= k)

\* C9: with no TX in flight, transmit() returns SIZE exactly when the frame
\* with its 2-byte CRC does not fit the buffer.
C9_SizeCheck ==
    last.op = "transmit" =>
        (TransmitRet.result = "SIZE"
            <=> PSDU_OFFSET + Int32(TransmitRet.frame_len) + MFR_SIZE
                    > BufLen(TransmitRet.buf))

\* C10: a transmit() rejected with BUSY or SIZE hands its buffer back and
\* leaves the driver, the buffers' contents and the registers as they were.
C10_RejectChangesNothing ==
    [][(Transmit /\ last'.trace[Len(last'.trace)].result \in {"BUSY", "SIZE"})
         => /\ last'.trace[Len(last'.trace)].buf \in held'
            /\ Len(last'.trace) = 1
            /\ UNCHANGED <<tx_power, rx_client, tx_client, tx_buf, rx_buf,
                           cca_count, cca_be, random_nonce, channel,
                           transmitting, timer0, registers, periph, alarm,
                           held, mem, panicked, addr, addr_long, pan>>]_vars

C10_Witness ==
    /\ last.op = "transmit"
    /\ TransmitRet.result = "SIZE"
    /\ rx_buf # None

\* entries i < j < k of the last operation's history are a, b and c
InOrder(a, b, c) ==
    \E i, j, k \in DOMAIN last.trace :
        /\ i < j /\ j < k
        /\ last.trace[i].ev = a
        /\ last.trace[j].ev = b
        /\ last.trace[k].ev = c

\* C11: after every accepted transmit(buf, frame_len) byte MIMIC_PSDU_OFFSET
\* of buf holds frame_len + MFR_SIZE, for every frame_len the size check
\* admits.
C11_LengthByte ==
    (last.op = "transmit" /\ TransmitRet.result = "Ok") =>
        mem[TransmitRet.buf] = Int32(TransmitRet.frame_len) + MFR_SIZE

\* C12: after an accepted transmit() tx_buf holds the buffer, transmitting
\* is set, cca_count = 0 and cca_be = MIN_BE, and the peripheral has been
\* powered off, powered on and configured, RXEN has been issued, PACKETPTR
\* points into the TX buffer and the interrupt set is enabled.
C12_AcceptedTransmit ==
    (last.op = "transmit" /\ TransmitRet.result = "Ok") =>
        /\ tx_buf = TransmitRet.buf
        /\ transmitting
        /\ cca_count = 0
        /\ cca_be = IEEE802154_MIN_BE
        /\ InOrder("power_off", "power_on", "task_rxen")
        /\ registers.power = 1
        /\ registers.state \in {RADIO_STATE_RXRU, RADIO_STATE_RXIDLE}
        /\ registers.mode = IEEE802154_250KBIT
        /\ registers.packetptr = BufBase(tx_buf) + MIMIC_PSDU_OFFSET
        /\ registers.inten = RadioInterrupts

\* an accepted transmit() after an attempt that backed off
C12_Witness ==
    /\ last.op = "transmit"
    /\ TransmitRet.result = "Ok"
    /\ random_nonce # NONCE_SEED

\* what the five accessors of the wrapper return in tracker state t
Getters(t) ==
    <<Ieee802154Radio_get_address(t, Cur),
      Ieee802154Radio_get_address_long(t, Cur),
      Ieee802154Radio_get_pan(t, Cur),
      Ieee802154Radio_get_channel(t, Cur),
      Ieee802154Radio_get_tx_power(t, Cur)>>

\* the step is the call op (every Do* action of op implies it)
Called(op) == last'.op = op

\* C13: set_channel(k) with k outside 11..=26 and set_tx_power(p) with p
\* outside {+4,+3,0,-4,-8,-12,-16,-20,-40} return NOSUPPORT and leave the
\* cached channel, the cached power and every register unchanged; with a
\* value inside the set they return Ok and store it.
C13_RejectOrStore ==
    [][/\ \A k \in ConfigChannels :
             (Called("set_channel") /\ DoSetChannel(k)) =>
                 IF k \in 11 .. 26
                 THEN /\ last'.result = "Ok"
                      /\ get_channel_index(channel') = k
                      /\ UNCHANGED <<tx_power, registers>>
                 ELSE /\ last'.result = "NOSUPPORT"
                      /\ UNCHANGED <<channel, tx_power, registers>>
       /\ \A p \in ConfigPowers :
             (Called("set_tx_power") /\ DoSetTxPower(p)) =>
                 IF p \in {4, 3, 0, -4, -8, -12, -16, -20, -40}
                 THEN /\ last'.result = "Ok"
                      /\ U8AsI8(tx_power') = p
                      /\ UNCHANGED <<channel, registers>>
                 ELSE /\ last'.result = "NOSUPPORT"
                      /\ UNCHANGED <<channel, tx_power, registers>>]_vars

\* a rejected set_channel() after an accepted one
C13_Witness ==
    /\ last.op = "set_channel"
    /\ last.result = "NOSUPPORT"
    /\ channel # DataChannel26

\* C14: for every k in 11..=26, set_channel(k) makes get_channel() return k,
\* and config_commit() or initialize() then leaves 5 * (k - 11) + 5 in the
\* FREQUENCY register.
C14_ChannelFrequency ==
    [][\A k \in 11 .. 26 :
          /\ (Called("set_channel") /\ DoSetChannel(k))
                => get_channel(Cur)' = k
          /\ (get_channel(Cur) = k /\ ~panicked'
                 /\ \/ Called("config_commit") /\ DoConfigCommit
                    \/ Called("initialize") /\ DoInitialize)
                => /\ registers'.frequency = 5 * (k - 11) + 5
                   /\ get_channel(Cur)' = k]_vars

\* config_commit() after set_channel(11)
C14_Witness ==
    /\ last.op = "config_commit"
    /\ ~panicked
    /\ get_channel(Cur) = 11
    /\ registers.frequency = 5

\* a step writes the cached channel into FREQUENCY, or the cached power into
\* TXPOWER (a power cycle that leaves TXPOWER at its reset value is no write)
PushedFrequency ==
    /\ registers'.frequency # registers.frequency
    /\ registers'.frequency = channel'
PushedTxPower ==
    /\ registers'.txpower # registers.txpower
    /\ registers'.txpower = tx_power'
    /\ tx_power' # ResetRegisters(0).txpower
\* the step is the driver's call op, not a step of the peripheral after it
PeripheralStep == HwReady \/ HwCca \/ HwFrameStart \/ HwEnd \/ HwEndAny
DriverStep(op) == Called(op) /\ ~PeripheralStep
\* the step is a transmit() from thread mode that returned Ok
AcceptedTransmit ==
    /\ DriverStep("transmit")
    /\ last'.trace[Len(last'.trace)].result = "Ok"
\* the step is an interrupt whose handler reaches the END branch (the READY
\* branch clears EVENTS_END) or whose send_done callback transmits again
EndOrResend ==
    /\ DriverStep("handle_interrupt")
    /\ \/ registers.event_end = 1 /\ registers.event_ready = 0
       \/ \E i \in DOMAIN last'.trace :
             last'.trace[i].ev = "transmit" /\ last'.trace[i].result = "Ok"

C16_RoundTrip ==
    [][/\ \A a \in AddrInputs :
             (Called("set_address") /\ DoSetAddress(a)) =>
                 /\ \A t \in TrackerStates :
                       Getters(t)' = [Getters(t) EXCEPT ![1] = a]
                 /\ UNCHANGED registers
       /\ \A a \in LongAddrInputs :
             (Called("set_address_long") /\ DoSetAddressLong(a)) =>
                 /\ \A t \in TrackerStates :
                       Getters(t)' = [Getters(t) EXCEPT ![2] = a]
                 /\ UNCHANGED registers
       /\ \A id \in PanInputs :
             (Called("set_pan") /\ DoSetPan(id)) =>
                 /\ \A t \in TrackerStates :
                       Getters(t)' = [Getters(t) EXCEPT ![3] = id]
                 /\ UNCHANGED registers
       /\ \A k \in 11 .. 26 :
             (Called("set_channel") /\ DoSetChannel(k)) =>
                 /\ \A t \in TrackerStates :
                       Getters(t)' = [Getters(t) EXCEPT ![4] = k]
                 /\ UNCHANGED registers
       /\ \A p \in {4, 3, 0, -4, -8, -12, -16, -20, -40} :
             (Called("set_tx_power") /\ DoSetTxPower(p)) =>
                 /\ \A t \in TrackerStates :
                       Getters(t)' = [Getters(t) EXCEPT ![5] = p]
                 /\ UNCHANGED registers
       /\ (\/ Called("config_commit") /\ DoConfigCommit
           \/ Called("initialize") /\ DoInitialize
           \/ Called("start") /\ DoStart)
             => \A t \in TrackerStates : Getters(t)' = Getters(t)]_vars

\* set_pan() after set_address() and set_channel(11)
C16_Witness ==
    /\ last.op = "set_pan"
    /\ Getters("Rx")[1] = 4660
    /\ Getters("Rx")[3] = 43981
    /\ Getters("Rx")[4] = 11

\* the step is an interrupt that finds only EVENTS_END latched, so the END
\* branch reads the state register as it is before the step
OnlyEnd ==
    /\ DriverStep("handle_interrupt")
    /\ registers.event_end = 1
    /\ registers.event_ready = 0
    /\ registers.event_ccaidle = 0
    /\ registers.event_ccabusy = 0
\* the receive callbacks made in the step
Receives ==
    {i \in DOMAIN last'.trace : last'.trace[i].ev = "receive"}

\* C17: on an END event read in an RX-family state, with RX client and RX
\* buffer present, receive is called once with the RX buffer,
\* frame_len = buf[1] - MFR_SIZE, crc_ok = (CRCSTATUS = 1) and result Ok
\* when crc_ok, FAIL otherwise.
C17_Receive ==
    [][(/\ OnlyEnd
        /\ registers.state \in RxFamily
        /\ rx_client
        /\ rx_buf # None)
          => /\ Cardinality(Receives) = 1
             /\ \A i \in Receives :
                   LET e == last'.trace[i]
                   IN /\ e.buf = rx_buf
                      /\ e.frame_len = <<0, mem[rx_buf] - MFR_SIZE>>
                      /\ e.flag = (registers.crcstatus = 1)
                      /\ e.result = IF e.flag THEN "Ok" ELSE "FAIL"]_vars

\* the send_done callbacks made in the step, and whether one of them sent
\* its buffer again
SendDonesOfStep ==
    {i \in DOMAIN last'.trace : last'.trace[i].ev = "send_done"}
Resent ==
    \E i \in DOMAIN last'.trace :
        last'.trace[i].ev = "transmit" /\ last'.trace[i].result = "Ok"

\* C18: every send_done has acked = false; an END event read in a TX-family
\* state clears transmitting and, with a TX client, reports Ok for the
\* buffer in flight whatever CRCSTATUS reads (transmitting is set again only
\* by a transmit() made in the callback); Err(BUSY) is reported only by the
\* handler of a CCABUSY event that finds the retries used up.
C18_SendDone ==
    [][/\ ~PeripheralStep =>
             \A i \in SendDonesOfStep :
                LET e == last'.trace[i]
                IN /\ e.flag = FALSE
                   /\ e.result = "BUSY" =>
                         /\ Called("handle_interrupt")
                         /\ registers.event_ccabusy = 1
                         /\ cca_count = IEEE802154_MAX_POLLING_ATTEMPTS
       /\ (OnlyEnd /\ registers.state \in TxFamily) =>
             IF tx_client
             THEN /\ Cardinality(SendDonesOfStep) = 1
                  /\ \A i \in SendDonesOfStep :
                        /\ last'.trace[i].buf = tx_buf
                        /\ last'.trace[i].result = "Ok"
                  /\ transmitting' = Resent
             ELSE /\ SendDonesOfStep = {}
                  /\ ~transmitting']_vars

\* a handler has reported Ok for a finished transmission and the driver is
\* idle again
C18_Witness ==
    /\ last.op = "handle_interrupt"
    /\ \E e \in SendDones : e.result = "Ok" /\ ~e.flag /\ e.att.busy = 0
    /\ ~transmitting
    /\ tx_buf = None

\* C19: with an RX buffer registered, channel 15 and 0 dBm set, after
\* start() the registers read MODE = 15, FREQUENCY = 25, TXPOWER = 0, RXEN
\* has been issued and the interrupt set is enabled.
C19_StartConfigures ==
    (/\ last.op = "start"
     /\ rx_buf # None
     /\ get_channel(Cur) = 15
     /\ get_tx_power(Cur) = 0)
    => /\ registers.mode = IEEE802154_250KBIT
       /\ registers.frequency = 25
       /\ registers.txpower = 0
       /\ \E i \in DOMAIN last.trace : last.trace[i].ev = "task_rxen"
       /\ registers.inten = RadioInterrupts

\* C20: initialize() returns Ok from every state, and a second call right
\* after a first leaves the buffers' slots, the counters, transmitting, the
\* configuration registers, PACKETPTR and the interrupt set as they were.
C20_InitializeIdempotent ==
    [][DoInitialize =>
          /\ ~panicked'
          /\ last'.result = "Ok"
          /\ last.op = "initialize" =>
                /\ UNCHANGED <<tx_buf, rx_buf, held, cca_count, cca_be,
                               transmitting, channel, tx_power>>
                /\ registers'.mode = registers.mode
                /\ registers'.frequency = registers.frequency
                /\ registers'.txpower = registers.txpower
                /\ registers'.packetptr = registers.packetptr
                /\ registers'.inten = registers.inten]_vars

\* the client callbacks made in the step
CallbacksOfStep ==
    {i \in DOMAIN last'.trace : last'.trace[i].ev \in {"send_done", "receive"}}

\* C21: with a TX client registered, no receive callback is delivered in a
\* step taken while an accepted transmit() awaits its send_done; callbacks
\* are made by the interrupt handler only, never by a call a callback can
\* make (transmit, set_receive_buffer) nor by any other call or the alarm,
\* and what a send_done callback does before it returns (up to the return of
\* its transmit) makes no callback.
C21_Serialised ==
    [][~PeripheralStep =>
          /\ (Receives # {} /\ tx_client) => ~InFlight
          /\ ~Called("handle_interrupt") => CallbacksOfStep = {}
          /\ \A i \in SendDonesOfStep, k \in DOMAIN last'.trace :
                (/\ i < k
                 /\ last'.trace[k].ev = "transmit"
                 /\ \A j \in (i + 1) .. (k - 1) :
                       last'.trace[j].ev # "transmit")
                  => \A j \in (i + 1) .. (k - 1) : j \notin CallbacksOfStep]_vars

\* C22: a handler pass makes at most one client callback, and a receive
\* callback is made only for a latched END event of a received frame, which
\* the pass consumes (so no frame is reported twice).
C22_OneFramePerReceive ==
    [][~PeripheralStep =>
          /\ Cardinality(CallbacksOfStep) <= 1
          /\ Receives # {} =>
                /\ registers.event_end = 1
                /\ periph.rxend
                /\ registers'.event_end = 0
                /\ ~periph'.rxend]_vars

\* C23: cca_count never exceeds MAX_POLLING_ATTEMPTS; the handler of a
\* CCABUSY event that finds cca_count = 4 does not increment it, clears
\* transmitting and, to a registered TX client, reports Err(BUSY) for the
\* buffer in flight (the count and the flag change again only if the
\* callback itself transmits).
C23_CcaCountBounded ==
    [][/\ cca_count <= IEEE802154_MAX_POLLING_ATTEMPTS
       /\ cca_count' <= IEEE802154_MAX_POLLING_ATTEMPTS
       /\ (/\ DriverStep("handle_interrupt")
           /\ registers.event_ccabusy = 1
           /\ cca_count = IEEE802154_MAX_POLLING_ATTEMPTS)
             => /\ cca_count' = IF Resent THEN 0
                                ELSE IEEE802154_MAX_POLLING_ATTEMPTS
                /\ transmitting' = Resent
                /\ IF tx_client
                   THEN /\ Cardinality(SendDonesOfStep) = 1
                        /\ \A i \in SendDonesOfStep :
                              /\ last'.trace[i].buf = tx_buf
                              /\ last'.trace[i].result = "BUSY"
                   ELSE SendDonesOfStep = {}]_vars

\* the fifth CCABUSY of a transmit has been handled: BUSY reported, the
\* count still at 4
C23_Witness ==
    /\ last.op = "handle_interrupt"
    /\ \E e \in SendDones : e.result = "BUSY"
    /\ cca_count = IEEE802154_MAX_POLLING_ATTEMPTS
    /\ ~transmitting

\* C24: in every reachable state, from construction onwards,
\* MIN_BE <= cca_be <= MIN_BE + MAX_POLLING_ATTEMPTS.
C24_BeRange ==
    /\ IEEE802154_MIN_BE <= cca_be
    /\ cca_be <= IEEE802154_MIN_BE + IEEE802154_MAX_POLLING_ATTEMPTS

\* C25: between calls and handlers, transmitting is true if and only if
\* tx_buf holds a buffer.
C25_FlagIffBuffer == ~panicked => (transmitting <=> tx_buf # None)

\* C26: when the READY branch issues START or CCASTART, PACKETPTR is
\* base + 1 of the buffer in the slot of the active path (tx_buf if
\* transmitting, rx_buf otherwise), and it targets no buffer a client holds.
C26_DmaPointer ==
    [][(DriverStep("handle_interrupt") /\ registers.event_ready = 1)
          => /\ RxSlot(Cur) # None
             /\ registers.packetptr
                   = BufBase(RxSlot(Cur)) + MIMIC_PSDU_OFFSET
             /\ DmaTarget \cap held = {}]_vars

\* the step issues the task
Issued(task) ==
    \E i \in DOMAIN last'.trace : last'.trace[i].ev = "task_" \o task

\* C27: TXEN is issued only by a handler that finds CCAIDLE latched, CCASTART
\* only by one that finds READY latched during a transmit; START in TXIDLE is
\* issued only when the last CCA verdict was idle; and the interrupt for the
\* END event of the transmitted frame makes send_done(Ok) to the TX client.
C27_ClearChannelOrder ==
    [][~PeripheralStep =>
          /\ Issued("txen") =>
                 Called("handle_interrupt") /\ registers.event_ccaidle = 1
          /\ Issued("ccastart") =>
                 /\ Called("handle_interrupt")
                 /\ registers.event_ready = 1
                 /\ transmitting
          /\ (/\ Called("handle_interrupt")
              /\ registers.event_ready = 1
              /\ registers.state = RADIO_STATE_TXIDLE)
                => Issued("start") /\ periph.verdict = "idle"
          /\ (/\ Called("handle_interrupt")
              /\ registers.event_end = 1
              /\ ~periph.rxend
              /\ tx_client)
                => \E i \in SendDonesOfStep : last'.trace[i].result = "Ok"]_vars

\* C28: a handler that finds READY latched leaves READY and END clear
\* without running the END branch, and issues exactly one of CCASTART and
\* START, before anything else: CCASTART if and only if transmitting is set
\* and the state register reads RXIDLE; when the alarm of an undisturbed
\* transmit has re-entered RX, the next READY is read in RXIDLE and starts a
\* CCA.
C28_ReadyBranch ==
    [][(DriverStep("handle_interrupt") /\ registers.event_ready = 1) =>
          /\ registers'.event_ready = 0
          /\ registers'.event_end = 0
          /\ \A i \in DOMAIN last'.trace : last'.trace[i].ev # "power_off"
          /\ {i \in DOMAIN last'.trace :
                 last'.trace[i].ev \in {"task_start", "task_ccastart"}} = {1}
          /\ last'.trace[1].ev =
                IF transmitting /\ registers.state = RADIO_STATE_RXIDLE
                THEN "task_ccastart" ELSE "task_start"
          /\ (last.op = "alarm" /\ transmitting /\ ~attempt.disturbed)
                => /\ registers.state = RADIO_STATE_RXIDLE
                   /\ last'.trace[1].ev = "task_ccastart"]_vars

\* after a backoff the READY handler has started the second CCA of a transmit
C28_Witness ==
    /\ last.op = "handle_interrupt"
    /\ Len(last.trace) = 1
    /\ last.trace[1].ev = "task_ccastart"
    /\ attempt.fired = 1
    /\ cca_count = 1
    /\ periph.cca


C30_EndOrder ==
    [][(/\ DriverStep("handle_interrupt")
        /\ registers.event_end = 1
        /\ registers.event_ready = 0)
          => LET n == Len(last'.trace)
                 tail == <<"power_off", "power_off", "power_on",
                           "task_disable", "task_rxen", "task_rxen">>
                 m == Len(tail)
             IN /\ \A i \in CallbacksOfStep, j \in DOMAIN last'.trace :
                      /\ (i <= n - m \/ panicked')
                      /\ (last'.trace[j].ev = "power_off" => i < j)
                /\ ~panicked' =>
                      /\ n >= m
                      /\ \A k \in 1..m : last'.trace[n - m + k].ev = tail[k]
                      /\ registers'.event_end = 0
                      /\ registers'.power = 1
                      /\ registers'.mode = IEEE802154_250KBIT
                      /\ registers'.frequency = channel'
                      /\ registers'.txpower = tx_power'
                      /\ registers'.state = RADIO_STATE_RXRU
                      /\ registers'.packetptr
                            = BufBase(RxSlot(Cur)') + MIMIC_PSDU_OFFSET
                      /\ registers'.inten = RadioInterrupts]_vars

\* a received frame has been delivered and the handler has power-cycled the
\* radio back into receive on channel 15, set since the last initialisation
C30_Witness ==
    /\ last.op = "handle_interrupt"
    /\ ~panicked
    /\ \E i \in DOMAIN last.trace : last.trace[i].ev = "receive"
    /\ last.trace[Len(last.trace)].ev = "task_rxen"
    /\ registers.state = RADIO_STATE_RXRU
    /\ registers.frequency = channel
    /\ channel = 25


(***************************************************************************)
(* Another interrupt source of the radio enabled from outside the handler  *)
(***************************************************************************)
\* sources of the INTEN register that enable_interrupts() does not name
OtherInterrupts == {"DISABLED"}

EnableInterrupt ==
    /\ ~panicked
    /\ callCount < MaxCalls
    /\ \E i \in OtherInterrupts :
          Commit(enable_interrupt(Counted("enable_interrupt"), i))

NextIrq ==
    \/ SetTransmitClient
    \/ SetReceiveClient
    \/ SetReceiveBuffer
    \/ SetTimerRef
    \/ Transmit
    \/ Initialize
    \/ Reset
    \/ Stop
    \/ ConfigCommit
    \/ SetChannel
    \/ EnableInterrupt
    \/ HwReady
    \/ HwCca
    \/ HwFrameStart
    \/ HwEnd
    \/ HandleInterrupt
    \/ Alarm

SpecIrq == Init /\ [][NextIrq]_vars

\* C31: whatever events are latched and whatever interrupts were enabled on
\* entry, when handle_interrupt returns the enabled interrupt set is exactly
\* {READY, CCAIDLE, CCABUSY, END, FRAMESTART}.
C31_InterruptSet ==
    [][(DriverStep("handle_interrupt") /\ ~panicked')
          => registers'.inten = RadioInterrupts]_vars

\* the handler has run on an interrupt of a source enabled from outside and
\* has left only its own set enabled
C31_Witness ==
    /\ last.op = "handle_interrupt"
    /\ ~panicked
    /\ last.trace = <<>>
    /\ callCount = 1
    /\ registers.event_disabled = 1
    /\ registers.event_framestart = 0
    /\ registers.inten = RadioInterrupts


\* C32: from the mask on entry to the final re-enable no radio interrupt is
\* enabled: every task, register write and client callback of a
\* handle_interrupt run is made with INTEN empty.
C32_MaskedBody ==
    [][DriverStep("handle_interrupt")
          => \A i \in DOMAIN last'.trace : last'.trace[i].inten = {}]_vars


(***************************************************************************)
(* The tracker: an interrupt from every tracker state with every value of  *)
(* the STATE register                                                      *)
(***************************************************************************)
\* the values of the four-bit STATE field
StateValues == 0..15

InitTracker ==
    /\ tx_power = ZerodBm
    /\ rx_client = FALSE
    /\ tx_client = FALSE
    /\ tx_buf = None
    /\ rx_buf = None
    /\ cca_count = 0
    /\ cca_be = 0
    /\ random_nonce = NONCE_SEED
    /\ channel = DataChannel26
    /\ transmitting = FALSE
    /\ timer0 = FALSE
    /\ \E v \in StateValues :
          registers = [ResetRegisters(1) EXCEPT !.state = v,
                                                !.inten = RadioInterrupts,
                                                !.event_framestart = 1]
    /\ periph = IdlePeriph
    /\ alarm = [pending |-> FALSE, dt |-> 0]
    /\ held = Bufs
    /\ mem = [b \in Bufs |-> 0]
    /\ panicked = FALSE
    /\ last = [op |-> "new", result |-> "-", trace |-> <<>>, latched |-> {}]
    /\ attempt = NoAttempt
    /\ txCount = 0
    /\ callCount = 0
    /\ doneCount = 0
    /\ addr = 0
    /\ addr_long = [i \in 1..8 |-> 0]
    /\ pan = 0
    /\ radio_state_machine \in TrackerStates

\* the radio interrupt, served by the wrapper
TrackerInterrupt ==
    /\ ~panicked
    /\ registers.power = 1
    /\ Pending # {}
    /\ \E c \in Choices(Cur) :
          Commit(Ieee802154Radio_handle_interrupt(
                     Begin(Cur, "handle_interrupt"), c))

NextTracker == TrackerInterrupt

SpecTracker == InitTracker /\ [][NextTracker]_vars

C34_TypedPaths ==
    [][last'.op = "handle_interrupt" =>
          LET path == state_transition(radio_state_machine, registers'.state)
              TxSide == {"TxRu", "TxIdle", "Tx", "TxDisable"}
              RxSide == {"RxRu", "RxIdle", "Rx", "RxDisable"}
              Diagram ==
                  {<<"Disabled", "TxRu">>, <<"TxRu", "Disabled">>,
                   <<"TxRu", "TxIdle">>, <<"TxIdle", "TxRu">>,
                   <<"TxIdle", "Tx">>, <<"Tx", "TxIdle">>,
                   <<"TxIdle", "TxDisable">>, <<"TxDisable", "Disabled">>,
                   <<"Disabled", "RxRu">>, <<"RxRu", "Disabled">>,
                   <<"RxRu", "RxIdle">>, <<"RxIdle", "RxRu">>,
                   <<"RxIdle", "Rx">>, <<"Rx", "RxIdle">>,
                   <<"RxIdle", "RxDisable">>, <<"RxDisable", "Disabled">>}
              Direct == {<<"RxIdle", "TxRu">>, <<"TxIdle", "RxRu">>}
              Extra == {<<"TxRu", "TxDisable">>, <<"Tx", "TxDisable">>,
                        <<"RxRu", "RxDisable">>, <<"Rx", "RxDisable">>}
              Steps == {<<path[k], path[k + 1]>> : k \in 1..(Len(path) - 1)}
              Crosses == \/ path[1] \in RxSide /\ path[Len(path)] \in TxSide
                         \/ path[1] \in TxSide /\ path[Len(path)] \in RxSide
          IN /\ FromImpls \subseteq (Diagram \cup Direct \cup Extra)
             /\ path[1] = radio_state_machine
             /\ path[Len(path)] = radio_state_machine'
             /\ \A e \in Steps : e \in FromImpls \/ e[1] = e[2]
             /\ Crosses =>
                   \/ \E k \in DOMAIN path : path[k] = "Disabled"
                   \/ Steps \cap Direct # {}]_vars

\* C34 as stated: every conversion is an edge of the documented diagram and
\* every chain from one side to the other passes through Disabled
C34_Original ==
    [][last'.op = "handle_interrupt" =>
          LET path == state_transition(radio_state_machine, registers'.state)
              TxSide == {"TxRu", "TxIdle", "Tx", "TxDisable"}
              RxSide == {"RxRu", "RxIdle", "Rx", "RxDisable"}
              Diagram ==
                  {<<"Disabled", "TxRu">>, <<"TxRu", "Disabled">>,
                   <<"TxRu", "TxIdle">>, <<"TxIdle", "TxRu">>,
                   <<"TxIdle", "Tx">>, <<"Tx", "TxIdle">>,
                   <<"TxIdle", "TxDisable">>, <<"TxDisable", "Disabled">>,
                   <<"Disabled", "RxRu">>, <<"RxRu", "Disabled">>,
                   <<"RxRu", "RxIdle">>, <<"RxIdle", "RxRu">>,
                   <<"RxIdle", "Rx">>, <<"Rx", "RxIdle">>,
                   <<"RxIdle", "RxDisable">>, <<"RxDisable", "Disabled">>}
              Steps == {<<path[k], path[k + 1]>> : k \in 1..(Len(path) - 1)}
              Crosses == \/ path[1] \in RxSide /\ path[Len(path)] \in TxSide
                         \/ path[1] \in TxSide /\ path[Len(path)] \in RxSide
          IN /\ FromImpls \subseteq Diagram
             /\ \A e \in Steps : e \in Diagram \/ e[1] = e[2]
             /\ Crosses => \E k \in DOMAIN path : path[k] = "Disabled"]_vars

\* the tracker has gone from RxIdle to Tx, a chain that crosses sides by the
\* direct conversion RxIdle->TxRu
C34_Witness ==
    /\ last.op = "handle_interrupt"
    /\ registers.state = 11
    /\ radio_state_machine = "Tx"
    /\ state_transition("RxIdle", registers.state)
          = <<"RxIdle", "TxRu", "TxIdle", "Tx">>


\* C35: a transmit() made inside send_done (Ok or Err(BUSY)) with a valid
\* size is accepted, because transmitting is already false and tx_buf empty
\* when the callback is made; when the handler returns the new attempt is in
\* flight: transmitting set, the buffer in tx_buf, the counters reset,
\* PACKETPTR in that buffer and RXEN the last task issued.
C35_ResendInCallback ==
    [][DriverStep("handle_interrupt") =>
          \A i \in SendDonesOfStep, k \in DOMAIN last'.trace :
              (k > i /\ last'.trace[k].ev = "transmit")
                 => /\ last'.trace[k].result = "Ok"
                    /\ last'.trace[k].buf = last'.trace[i].buf
                    /\ ~panicked'
                    /\ transmitting'
                    /\ tx_buf' = last'.trace[i].buf
                    /\ cca_count' = 0
                    /\ cca_be' = IEEE802154_MIN_BE
                    /\ registers'.packetptr
                          = BufBase(tx_buf') + MIMIC_PSDU_OFFSET
                    /\ registers'.state = RADIO_STATE_RXRU
                    /\ \E j \in DOMAIN last'.trace :
                          /\ j > i
                          /\ last'.trace[j].ev = "task_rxen"
                          /\ \A m \in DOMAIN last'.trace :
                                m > j => last'.trace[m].ev
                                            \in {"task_rxen", "transmit"}]_vars

\* a send_done(Err(BUSY)) callback has sent its buffer again
C35_Witness ==
    /\ last.op = "handle_interrupt"
    /\ \E i, k \in DOMAIN last.trace :
          /\ i < k
          /\ last.trace[i].ev = "send_done"
          /\ last.trace[i].result = "BUSY"
          /\ last.trace[k].ev = "transmit"
          /\ last.trace[k].result = "Ok"
    /\ transmitting
    /\ tx_buf # None


\* C36: with both clients registered and an RX buffer in its slot, and the
\* RX client handing a buffer back inside every receive callback, no buffer
\* unwrap of rx() or handle_interrupt fails: the registrations and the RX
\* buffer persist, every rx() finds the slot of the active path filled
\* (tx_buf when transmitting, rx_buf otherwise) and loads PACKETPTR from it,
\* and a step can panic only for a missing timer, for the subtraction on the
\* received length, or after a receive callback that did not refill.
C36_SlotsFilled ==
    [][(/\ ~PeripheralStep
        /\ ~panicked
        /\ tx_client /\ rx_client
        /\ rx_buf # None)
          => /\ tx_client' /\ rx_client'
             /\ (Receives = {} /\ ~panicked') => rx_buf' # None
             /\ (Issued("rxen") /\ ~panicked') =>
                   LET slot == IF transmitting' THEN tx_buf' ELSE rx_buf'
                   IN /\ slot # None
                      /\ registers'.power = 1 =>
                            registers'.packetptr
                               = BufBase(slot) + MIMIC_PSDU_OFFSET
             /\ panicked' =>
                   /\ Called("handle_interrupt")
                   /\ \/ registers.event_ccabusy = 1 /\ ~timer0
                      \/ /\ registers.event_end = 1
                         /\ Receives = {}
                         /\ rx_buf' = None
                         /\ mem[rx_buf] < MFR_SIZE
                      \/ Receives # {} /\ rx_buf' = None]_vars

\* a frame has been received, the client has handed the buffer back inside
\* the callback and the handler has gone back to receive
C36_Witness ==
    /\ last.op = "handle_interrupt"
    /\ ~panicked
    /\ tx_client /\ rx_client
    /\ \E i \in DOMAIN last.trace :
          last.trace[i].ev = "receive" /\ last.trace[i].buf = rx_buf
    /\ last.trace[Len(last.trace)].ev = "task_rxen"
    /\ registers.packetptr = BufBase(rx_buf) + MIMIC_PSDU_OFFSET


\* C37: with no TX client registered, the handler that completes a transmit
\* (END read in a TX-family state, or CCABUSY with the retries used up)
\* clears transmitting, leaves the buffer in tx_buf and makes no send_done;
\* from then on the buffer stays in tx_buf with transmitting clear, and
\* every transmit() returns Err(BUSY).
C37_NoTxClient ==
    [][~PeripheralStep =>
          /\ (/\ Called("handle_interrupt")
              /\ ~tx_client
              /\ transmitting
              /\ \/ OnlyEnd /\ registers.state \in TxFamily
                 \/ /\ registers.event_ccabusy = 1
                    /\ cca_count = IEEE802154_MAX_POLLING_ATTEMPTS)
                => /\ ~transmitting'
                   /\ tx_buf' = tx_buf
                   /\ tx_buf' # None
                   /\ SendDonesOfStep = {}
          /\ (~transmitting /\ tx_buf # None /\ ~panicked)
                => /\ ~transmitting'
                   /\ tx_buf' = tx_buf
                   /\ SendDonesOfStep = {}
                   /\ Called("transmit") =>
                         last'.trace[Len(last'.trace)].result = "BUSY"]_vars

\* after a transmit completed with no TX client a further transmit() has
\* been refused
C37_Witness ==
    /\ last.op = "transmit"
    /\ TransmitRet.result = "BUSY"
    /\ ~transmitting
    /\ tx_buf # None
    /\ ~tx_client
    /\ TransmitRet.buf # tx_buf


\* C38: a handler entered with READY and END both latched clears END in its
\* READY branch, so the pass makes no send_done or receive callback, leaves
\* transmitting and the buffer slots as they were and does not power-cycle
\* the radio.
C38_ReadyHidesEnd ==
    [][(/\ DriverStep("handle_interrupt")
        /\ registers.event_ready = 1
        /\ registers.event_end = 1)
          => /\ CallbacksOfStep = {}
             /\ transmitting' = transmitting
             /\ tx_buf' = tx_buf
             /\ rx_buf' = rx_buf
             /\ held' = held
             /\ registers'.event_end = 0
             /\ registers'.power = 1
             /\ ~panicked'
             /\ \A i \in DOMAIN last'.trace :
                   last'.trace[i].ev
                      \notin {"power_off", "power_on", "task_rxen"}]_vars

\* the END event of a transmitted frame was latched together with READY:
\* the handler has started a new CCA with the frame still in flight and its
\* send_done not made
C38_Witness ==
    /\ last.op = "handle_interrupt"
    /\ last.latched = {"READY", "END"}
    /\ Len(last.trace) = 1
    /\ last.trace[1].ev = "task_ccastart"
    /\ registers.event_end = 0
    /\ transmitting
    /\ tx_buf # None
    /\ attempt.done = 0
    /\ ~panicked


(***************************************************************************)
(* The END interrupt of a received frame, for every length byte            *)
(***************************************************************************)
\* the values of rbuf[MIMIC_PSDU_OFFSET], a u8
LengthBytes == 0..255

\* a frame has just been received into the RX buffer: the peripheral is back
\* in RXIDLE with EVENTS_END latched, CRCSTATUS set or not, and the length
\* byte of the frame at the head of the buffer
InitLength ==
    /\ tx_power = ZerodBm
    /\ rx_client = TRUE
    /\ tx_client = TRUE
    /\ tx_buf = None
    /\ \E b \in Bufs :
          /\ rx_buf = b
          /\ held = Bufs \ {b}
          /\ \E n \in LengthBytes :
                mem = [x \in Bufs |-> IF x = b THEN n ELSE 0]
          /\ \E crc \in {0, 1} :
                registers = [ResetRegisters(1) EXCEPT
                                !.state = RADIO_STATE_RXIDLE,
                                !.inten = RadioInterrupts,
                                !.packetptr = BufBase(b) + MIMIC_PSDU_OFFSET,
                                !.crcstatus = crc,
                                !.event_end = 1]
    /\ cca_count = 0
    /\ cca_be = 0
    /\ random_nonce = NONCE_SEED
    /\ channel = DataChannel26
    /\ transmitting = FALSE
    /\ timer0 = TRUE
    /\ periph = [IdlePeriph EXCEPT !.rxend = TRUE]
    /\ alarm = [pending |-> FALSE, dt |-> 0]
    /\ panicked = FALSE
    /\ last = [op |-> "new", result |-> "-", trace |-> <<>>, latched |-> {}]
    /\ attempt = NoAttempt
    /\ txCount = 0
    /\ callCount = 0
    /\ doneCount = 0
    /\ addr = 0
    /\ addr_long = [i \in 1..8 |-> 0]
    /\ pan = 0
    /\ radio_state_machine = "Disabled"

NextLength == HandleInterrupt

SpecLength == InitLength /\ [][NextLength]_vars

\* C39: for every length byte 0..255 the handler of a received frame gets
\* past the subtraction and calls receive, and the frame_len it passes is
\* the byte minus MFR_SIZE, a number from 0 up to the byte.
C39_FrameLen ==
    [][(/\ DriverStep("handle_interrupt")
        /\ registers.event_end = 1
        /\ registers.state \in RxFamily
        /\ rx_client
        /\ rx_buf # None)
          => /\ Cardinality(Receives) = 1
             /\ \A i \in Receives :
                   LET n == mem[rx_buf] - MFR_SIZE
                   IN /\ n >= 0
                      /\ n <= mem[rx_buf]
                      /\ last'.trace[i].frame_len = <<0, n>>]_vars


\* C40: while a backoff alarm is pending the peripheral stays Disabled, no
\* step before the alarm fires issues CCASTART or START, and no second alarm
\* is set while one is pending, whatever thread-mode calls and interrupts
\* interleave.
C40_BackoffQuiet ==
    /\ [](alarm.pending => registers.state = RADIO_STATE_DISABLED)
    /\ [][(alarm.pending /\ ~Called("alarm") /\ ~PeripheralStep)
             => /\ ~Issued("ccastart")
                /\ ~Issued("start")
                /\ \A i \in DOMAIN last'.trace :
                      last'.trace[i].ev # "set_alarm"]_vars

====
